---- MODULE Spec2Model ----
(***************************************************************************)
(* Reconciliation core of qc_tool: key normalization, the P1 metric-label  *)
(* parser, the TSE comparator and the hierarchy comparison.                *)
(*                                                                         *)
(* Text is a sequence of one-character strings.  A cell of a table is such *)
(* a sequence, or one of the three missing markers below (a one-element    *)
(* sequence holding a token that is no character).  A numeric cell is a    *)
(* sequence of at most one integer: << >> is NaN.  An optional object is   *)
(* None (<< >>) or Some(v) (<< v >>).                                      *)
(***************************************************************************)
EXTENDS Integers, Sequences, FiniteSets, TLC

VARIABLES
    normIn, normOnce, normTwice, hierOnce, hierTwice,   \* ID normalizers applied once and twice
    metric_string, parsed,                              \* _parse_production_metric: argument, return value
    comparator,                                         \* which comparator object the run drives
    tse_df_p1, tse_df_r1, tse_ret,                      \* TSEComparator: df_p1, df_r1; outcome of the last compare()
    hc_df_p1, hc_df_r1, hc_df_out, hc_ret,              \* HierarchyComparison: df_p1, df_r1, df_out; outcome of the last build()
    caller_p1, caller_r1,                               \* the tables the caller passed to the comparator's setters, as they are now
    holds, tse_prev,                                    \* which objects df_p1 and df_r1 are; outcome of the compare() before the last
    loader,                                             \* which loader step the run drives
    uv_value, uv_tse, uv_ae,                            \* an "Uncertainty/Valuation" cell; its split by LoaderP1TSE, by LoaderP1AE
    csv_columns, base_year, r1_columns, r1_rename,      \* R1Loader.load_data: CSV header, datetime.now().year, df.columns, rename_map
    year_id, days,                                      \* get_days_in_year: argument, return value
    df_transposed, df_annual, df_production,            \* LoaderP1TSE.extract_production_data: input, annual values, result
    table_columns, year_found,                          \* the columns of a table; those taken for year columns
    sheet, promoted,                                    \* _maybe_promote_header_row: argument, return value
    p1_tse_path, p1_hier_path, p1_hier_sheet, r1_path,  \* DataOrchestrator: paths
    df_p1_tse, df_p1_hier, df_r1_raw, df_r1_hier,       \* DataOrchestrator: cached DFs
    df_tse_compare, df_hier_compare, hc_model,          \* DataOrchestrator: derived
    orch_call, orch_ret, orch_reads,                    \* the last call on the orchestrator, how it ended, what it returned; reads of each file under its current selection
    other_order,                                        \* how the last selection would have ended with its two setters called in the other order
    tabs, window_event                                  \* MainWindow: the enabled result tabs; the last event handled and how it ended

normVars == << normIn, normOnce, normTwice, hierOnce, hierTwice >>
parseVars == << metric_string, parsed >>
tseVars == << tse_df_p1, tse_df_r1, tse_ret >>
hierVars == << hc_df_p1, hc_df_r1, hc_df_out, hc_ret >>
callerVars == << caller_p1, caller_r1, holds, tse_prev >>
splitVars == << uv_value, uv_tse, uv_ae >>
daysVars == << year_id, days >>
extractVars == << df_transposed, df_annual, df_production >>
discoverVars == << table_columns, year_found >>
promoteVars == << sheet, promoted >>
r1LoadVars == << csv_columns, base_year, r1_columns, r1_rename >>
loaderVars == << loader, splitVars, r1LoadVars, daysVars, extractVars, discoverVars, promoteVars >>
orchPaths == << p1_tse_path, p1_hier_path, p1_hier_sheet, r1_path >>
orchCached == << df_p1_tse, df_p1_hier, df_r1_raw, df_r1_hier >>
orchDerived == << df_tse_compare, df_hier_compare, hc_model >>
orchVars == << orchPaths, orchCached, orchDerived, orch_call, orch_ret, orch_reads, other_order >>
windowVars == << tabs, window_event >>
vars == << normVars, parseVars, comparator, tseVars, hierVars, callerVars, loaderVars, orchVars, windowVars >>

(***************************************************************************)
(* Bounds                                                                  *)
(***************************************************************************)
MaxIdLen == 4
MaxTailTokens == 5
MaxRows == 2
MaxUvTokens == 2
MaxCsvCols == 3
MaxMonthRows == 3
MaxTableCols == 2
MaxSheetRows == 3

\* reads of one file counted under one selection
MaxReads == 2

(***************************************************************************)
(* Python values                                                           *)
(***************************************************************************)
None == << >>
Some(v) == << v >>

NAN == << "float:nan" >>
PDNA == << "pandas:NA" >>
PYNONE == << "py:None" >>
Missing == { NAN, PDNA, PYNONE }

SeqsUpTo(S, n) == UNION { [1..k -> S] : k \in 0..n }

(***************************************************************************)
(* str methods                                                             *)
(***************************************************************************)
LowerChars == << "a","b","c","d","e","f","g","h","i","j","k","l","m",
                 "n","o","p","q","r","s","t","u","v","w","x","y","z" >>
UpperChars == << "A","B","C","D","E","F","G","H","I","J","K","L","M",
                 "N","O","P","Q","R","S","T","U","V","W","X","Y","Z" >>

IsWs(c) == c \in { " ", "\t", "\n" }

UpperOf(c) == IF \E i \in 1..26 : LowerChars[i] = c
              THEN UpperChars[CHOOSE i \in 1..26 : LowerChars[i] = c]
              ELSE c

LowerOf(c) == IF \E i \in 1..26 : UpperChars[i] = c
              THEN LowerChars[CHOOSE i \in 1..26 : UpperChars[i] = c]
              ELSE c

Upper(s) == [i \in 1..Len(s) |-> UpperOf(s[i])]
Lower(s) == [i \in 1..Len(s) |-> LowerOf(s[i])]

RECURSIVE LStrip(_)
LStrip(s) == IF s # << >> /\ IsWs(Head(s)) THEN LStrip(Tail(s)) ELSE s

RECURSIVE RStrip(_)
RStrip(s) == IF s # << >> /\ IsWs(s[Len(s)]) THEN RStrip(SubSeq(s, 1, Len(s) - 1)) ELSE s

Strip(s) == RStrip(LStrip(s))

StartsWith(s, p) == Len(s) >= Len(p) /\ SubSeq(s, 1, Len(p)) = p

\* str.replace(pat, rep): every non-overlapping occurrence, left to right
RECURSIVE Replace(_, _, _)
Replace(s, pat, rep) ==
    IF s = << >> THEN << >>
    ELSE IF StartsWith(s, pat) THEN rep \o Replace(SubSeq(s, Len(pat) + 1, Len(s)), pat, rep)
    ELSE << Head(s) >> \o Replace(Tail(s), pat, rep)

\* str.split(): the maximal runs of non-whitespace characters
RECURSIVE SplitWs(_)
SplitWs(s) ==
    LET t == LStrip(s)
        n == IF \E i \in 1..Len(t) : IsWs(t[i])
             THEN (CHOOSE i \in 1..Len(t) : IsWs(t[i]) /\ \A j \in 1..(i - 1) : ~IsWs(t[j])) - 1
             ELSE Len(t)
    IN  IF t = << >> THEN << >>
        ELSE << SubSeq(t, 1, n) >> \o SplitWs(SubSeq(t, n + 1, Len(t)))

\* str.split(sep), sep non-empty: always at least one part
RECURSIVE SplitOn(_, _)
SplitOn(s, sep) ==
    IF \E i \in 1..Len(s) : StartsWith(SubSeq(s, i, Len(s)), sep)
    THEN LET i == CHOOSE k \in 1..Len(s) :
                      /\ StartsWith(SubSeq(s, k, Len(s)), sep)
                      /\ \A j \in 1..(k - 1) : ~StartsWith(SubSeq(s, j, Len(s)), sep)
         IN  << SubSeq(s, 1, i - 1) >> \o SplitOn(SubSeq(s, i + Len(sep), Len(s)), sep)
    ELSE << s >>

\* ' '.join(parts)
RECURSIVE JoinSp(_)
JoinSp(parts) ==
    IF parts = << >> THEN << >>
    ELSE IF Len(parts) = 1 THEN parts[1]
    ELSE parts[1] \o << " " >> \o JoinSp(Tail(parts))

\* Series.astype(str) on one cell
AsStr(c) ==
    IF c = NAN THEN << "n","a","n" >>
    ELSE IF c = PDNA THEN << "<","N","A",">" >>
    ELSE IF c = PYNONE THEN << "N","o","n","e" >>
    ELSE c

\* .str.replace(r"\.0$", "", regex=True) on a stripped string
RemoveTrailingDot0(s) ==
    IF Len(s) >= 2 /\ s[Len(s) - 1] = "." /\ s[Len(s)] = "0"
    THEN SubSeq(s, 1, Len(s) - 2)
    ELSE s

(***************************************************************************)
(* ID normalizers                                                          *)
(***************************************************************************)
\* norm_id without its .str.strip()
norm_id_unstripped(c) == RemoveTrailingDot0(Upper(AsStr(c)))

\* TSEComparator.compare: norm_id, on one cell
norm_id(c) == RemoveTrailingDot0(Upper(Strip(AsStr(c))))

\* TSEComparator.compare: norm_enum, on one cell
norm_enum(c) == Upper(Strip(AsStr(c)))

\* hierarchy_compare._norm_id, on one cell
_norm_id(c) ==
    LET u == Upper(RemoveTrailingDot0(Strip(AsStr(c))))
    IN  IF u = << "N","A","N" >> THEN PDNA ELSE u

\* hierarchy_compare._norm_name, on one cell; Series.str.lower() keeps a missing value missing
_norm_name(c) ==
    LET t == Strip(AsStr(c))
    IN  IF t = << "n","a","n" >> \/ t = << >> THEN PDNA ELSE Lower(t)

(***************************************************************************)
(* LoaderP1TSE._parse_production_metric                                    *)
(***************************************************************************)
MetricKeys == { "PRODUCT", "EQUITY_SHARE", "PRODUCT_STREAM", "CUT_OFF", "TYPE" }

EmptyMetric == [k \in MetricKeys |-> << >>]

NoHyphen(s) == \A i \in 1..Len(s) : s[i] # "-"

\* re.search(r'^-\s+([^-]+?)\s+([^-]+?)\s+-\s+(.+)$', s) for a subject built by ' '.join(...):
\* every whitespace run of s is one character long, so each \s+ takes exactly one character.
\* The pairs <<i2, i4>> are the ends of group 1 and group 2 in s.
MetricPatternSplits(s) ==
    { p \in (3..Len(s)) \X (3..Len(s)) :
        /\ s[1] = "-" /\ IsWs(s[2])
        /\ NoHyphen(SubSeq(s, 3, p[1]))
        /\ p[1] + 2 <= p[2]
        /\ IsWs(s[p[1] + 1])
        /\ NoHyphen(SubSeq(s, p[1] + 2, p[2]))
        /\ p[2] + 4 <= Len(s)
        /\ IsWs(s[p[2] + 1]) /\ s[p[2] + 2] = "-" /\ IsWs(s[p[2] + 3])
        /\ \A i \in (p[2] + 4)..Len(s) : s[i] # "\n" }

\* the pattern with a greedy first group, ([^-]+) for ([^-]+?)
MetricPatternMatchGreedy(s) ==
    LET splits == MetricPatternSplits(s)
        best == CHOOSE p \in splits :
                    \A q \in splits : p[1] > q[1] \/ (p[1] = q[1] /\ p[2] <= q[2])
    IN  IF splits = {} THEN None
        ELSE Some(<< SubSeq(s, 3, best[1]),
                     SubSeq(s, best[1] + 2, best[2]),
                     SubSeq(s, best[2] + 4, Len(s)) >>)

\* the match the backtracking finds first: both groups are lazy
MetricPatternMatch(s) ==
    LET splits == MetricPatternSplits(s)
        best == CHOOSE p \in splits :
                    \A q \in splits : p[1] < q[1] \/ (p[1] = q[1] /\ p[2] <= q[2])
    IN  IF splits = {} THEN None
        ELSE Some(<< SubSeq(s, 3, best[1]),
                     SubSeq(s, best[1] + 2, best[2]),
                     SubSeq(s, best[2] + 4, Len(s)) >>)

\* parts = metric_string[4:].split()
MetricParts(ms) == SplitWs(SubSeq(ms, 5, Len(ms)))

\* ' '.join(parts[1:]): the remainder taken from the second token on
MetricRemainder_from_second(ms) ==
    LET parts == MetricParts(ms)
    IN  IF Len(parts) > 2 THEN JoinSp(SubSeq(parts, 2, Len(parts))) ELSE << >>

\* remaining_str = ' '.join(parts[2:]) if len(parts) > 2 else ""
MetricRemainder(ms) ==
    LET parts == MetricParts(ms)
    IN  IF Len(parts) > 2 THEN JoinSp(SubSeq(parts, 3, Len(parts))) ELSE << >>

\* the try block: the locals it binds, then the return statement.  A local the taken
\* branch never assigns is None; reading it in the return statement raises.
ParseMetricBody(ms) ==
    IF ms \in Missing THEN [exc |-> TRUE, value |-> EmptyMetric]      \* metric_string[4:] on a non-string
    ELSE
    LET parts == MetricParts(ms)
        product == IF Len(parts) > 0 THEN Upper(parts[1]) ELSE << >>
        product_stream0 == IF Len(parts) > 1 THEN Upper(parts[2]) ELSE << >>
        remaining_str == MetricRemainder(ms)
        match == MetricPatternMatch(remaining_str)
        stream_parts == SplitOn(remaining_str, << " ", "-", " " >>)
        first_part == Strip(stream_parts[1])
        first_parts == SplitWs(first_part)
        locals ==
            IF match # None
            THEN [ product_stream |-> product_stream0,
                   equity_share |-> Some(Strip(Replace(match[1][1], << "%" >>, << >>))),
                   cut_off |-> Strip(Replace(Replace(match[1][2], << "t","r" >>,
                                                     << "A","p","p","l","i","e","d" >>),
                                             << "u","n","t" >>,
                                             << "N","o","t"," ","A","p","p","l","i","e","d" >>)),
                   metric_type |-> Strip(match[1][3]) ]
            ELSE IF Len(stream_parts) >= 3
            THEN [ product_stream |-> IF Len(first_parts) >= 2 THEN first_parts[1] ELSE first_part,
                   equity_share |-> None,
                   cut_off |-> IF Len(first_parts) >= 2 THEN first_parts[2] ELSE << >>,
                   metric_type |-> Strip(stream_parts[3]) ]
            ELSE [ product_stream |-> << >>,
                   equity_share |-> None,
                   cut_off |-> << >>,
                   metric_type |-> remaining_str ]
    IN  IF locals.equity_share = None
        THEN [exc |-> TRUE, value |-> EmptyMetric]
        ELSE [exc |-> FALSE,
              value |-> [ PRODUCT |-> product,
                          EQUITY_SHARE |-> locals.equity_share[1],
                          PRODUCT_STREAM |-> locals.product_stream,
                          CUT_OFF |-> locals.cut_off,
                          TYPE |-> locals.metric_type ]]

\* the method without its try/except: an exception of the body reaches the caller
_parse_production_metric_unguarded(ms) ==
    LET body == ParseMetricBody(ms)
    IN  [raised |-> body.exc, value |-> body.value]

\* the whole method: `except Exception` turns every exception of the body into the empty record
_parse_production_metric(ms) ==
    LET body == ParseMetricBody(ms)
    IN  IF body.exc THEN [raised |-> FALSE, value |-> EmptyMetric]
        ELSE [raised |-> FALSE, value |-> body.value]

(***************************************************************************)
(* pandas: a DataFrame is [cols |-> set of column names, rows |-> sequence *)
(* of rows], a row a function from cols to cells.  Column order is not     *)
(* modelled (it only decides in which order a table is displayed).         *)
(***************************************************************************)
Digits == { "0","1","2","3","4","5","6","7","8","9" }

\* str.isdigit()
IsDigitStr(s) == s # << >> /\ \A i \in 1..Len(s) : s[i] \in Digits

\* str(c) of the column names the model's tables carry
ColumnText(c) ==
    CASE c = "TECHNICAL_SUB_ENTITY_ID" -> << "T","E","C","H","N","I","C","A","L","_","S","U","B","_","E","N","T","I","T","Y","_","I","D" >>
      [] c = "EQUITY_SHARE" -> << "E","Q","U","I","T","Y","_","S","H","A","R","E" >>
      [] c = "PRODUCT_STREAM" -> << "P","R","O","D","U","C","T","_","S","T","R","E","A","M" >>
      [] c = "PRODUCT" -> << "P","R","O","D","U","C","T" >>
      [] c = "UNCERTAINTY" -> << "U","N","C","E","R","T","A","I","N","T","Y" >>
      [] c = "VALUATION" -> << "V","A","L","U","A","T","I","O","N" >>
      [] c = "CUT_OFF" -> << "C","U","T","_","O","F","F" >>
      [] c = "TECHNICAL_SUB_ENTITY_NAME" -> << "T","E","C","H","N","I","C","A","L","_","S","U","B","_","E","N","T","I","T","Y","_","N","A","M","E" >>
      [] c = "UNITS" -> << "U","N","I","T","S" >>
      [] c = "TYPE" -> << "T","Y","P","E" >>
      [] c = "APPROVAL" -> << "A","P","P","R","O","V","A","L" >>
      [] c = "2025" -> << "2","0","2","5" >>
      [] c = "2026" -> << "2","0","2","6" >>
      [] c = "2027" -> << "2","0","2","7" >>
      [] OTHER -> << "?" >>

\* [c for c in df.columns if str(c).isdigit()]
YearColumns(cols) == { c \in cols : IsDigitStr(ColumnText(c)) }

Restrict(f, S) == [c \in S |-> f[c]]

\* the value a join or a reindex puts in a cell that has no source: NaN
FillNaN(c) == IF IsDigitStr(ColumnText(c)) THEN << >> ELSE NAN

\* code points of the characters the model uses, in ascending order; a missing value sorts last
CodeOrder == << "\t", "\n", " ", "%", "-", ".", "0","1","2","3","4","5","6","7","8","9", "<", ">", "?" >>
             \o UpperChars \o << "_" >> \o LowerChars
Ord(c) == IF \E i \in 1..Len(CodeOrder) : CodeOrder[i] = c
          THEN CHOOSE i \in 1..Len(CodeOrder) : CodeOrder[i] = c
          ELSE Len(CodeOrder) + 1

RECURSIVE TextLess(_, _)
TextLess(a, b) ==
    IF b = << >> THEN FALSE
    ELSE IF a = << >> THEN TRUE
    ELSE IF Ord(Head(a)) # Ord(Head(b)) THEN Ord(Head(a)) < Ord(Head(b))
    ELSE TextLess(Tail(a), Tail(b))

\* lexicographic order of two rows on the key columns keyseq
RECURSIVE KeyLess(_, _, _)
KeyLess(r1, r2, keyseq) ==
    IF keyseq = << >> THEN FALSE
    ELSE IF r1[Head(keyseq)] # r2[Head(keyseq)] THEN TextLess(r1[Head(keyseq)], r2[Head(keyseq)])
    ELSE KeyLess(r1, r2, Tail(keyseq))

\* the elements of a set of key rows in ascending order (groupby and outer merge sort their keys)
RECURSIVE SortKeys(_, _)
SortKeys(S, keyseq) ==
    IF S = {} THEN << >>
    ELSE LET m == CHOOSE r \in S : \A q \in S \ {r} : KeyLess(r, q, keyseq)
         IN  << m >> \o SortKeys(S \ {m}, keyseq)

SeqToSet(q) == { q[i] : i \in 1..Len(q) }

\* DataFrame.drop_duplicates(subset=S, keep="first")
RECURSIVE DropDuplicatesOn(_, _)
DropDuplicatesOn(rows, S) ==
    IF rows = << >> THEN << >>
    ELSE LET init == DropDuplicatesOn(SubSeq(rows, 1, Len(rows) - 1), S)
             last == rows[Len(rows)]
         IN  IF \E i \in 1..Len(init) : Restrict(init[i], S) = Restrict(last, S)
             THEN init
             ELSE Append(init, last)

\* df[cols]
Project(df, S) == [cols |-> S, rows |-> [i \in 1..Len(df.rows) |-> Restrict(df.rows[i], S)]]

\* Series.sum(): NaN is skipped, an all-NaN or empty series sums to 0
RECURSIVE SumCells(_)
SumCells(cells) ==
    IF cells = << >> THEN 0
    ELSE (IF Head(cells) = << >> THEN 0 ELSE Head(cells)[1]) + SumCells(Tail(cells))

\* GroupBy.first(): the first non-null value, NaN when there is none
RECURSIVE FirstCell(_)
FirstCell(cells) ==
    IF cells = << >> THEN NAN
    ELSE IF Head(cells) \notin Missing THEN Head(cells)
    ELSE FirstCell(Tail(cells))

\* the rows of one group: groupby drops a row whose key holds a missing value (dropna=True)
GroupRows(df, keys, g) ==
    SelectSeq(df.rows, LAMBDA r : Restrict(r, keys) = g)

GroupKeys(df, keys) ==
    { Restrict(df.rows[i], keys) : i \in { j \in 1..Len(df.rows) :
                                             \A k \in keys : df.rows[j][k] \notin Missing } }

Column(rows, c) == [i \in 1..Len(rows) |-> rows[i][c]]

\* df.groupby(keys)[years].sum().reset_index()
GroupBySum(df, keyseq, years) ==
    LET keys == SeqToSet(keyseq)
        sorted == SortKeys(GroupKeys(df, keys), keyseq)
    IN  [ cols |-> keys \cup years,
          rows |-> [i \in 1..Len(sorted) |->
                      [c \in keys \cup years |->
                          IF c \in keys THEN sorted[i][c]
                          ELSE << SumCells(Column(GroupRows(df, keys, sorted[i]), c)) >>]] ]

\* df.groupby(keys)[col].first().reset_index()
GroupByFirst(df, keyseq, col) ==
    LET keys == SeqToSet(keyseq)
        sorted == SortKeys(GroupKeys(df, keys), keyseq)
    IN  [ cols |-> keys \cup {col},
          rows |-> [i \in 1..Len(sorted) |->
                      [c \in keys \cup {col} |->
                          IF c \in keys THEN sorted[i][c]
                          ELSE FirstCell(Column(GroupRows(df, keys, sorted[i]), c))]] ]

\* the values of the merge indicator column and of the flag columns
BOTH == << "both" >>
LEFT_ONLY == << "left_only" >>
RIGHT_ONLY == << "right_only" >>
CHECK_MARK == << "check mark" >>
CROSS_MARK == << "cross mark" >>

RECURSIVE Flatten(_)
Flatten(blocks) == IF blocks = << >> THEN << >> ELSE Head(blocks) \o Flatten(Tail(blocks))

\* pd.merge(left, right, on=onseq, how="outer", suffixes=(lsuf, rsuf), indicator=True):
\* one block of rows per key of either side, keys ascending; a key of both sides gives every
\* pair of its left and right rows; equal keys match also where they hold a missing value
MergeOuter(left, right, onseq, lsuf, rsuf) ==
    LET on == SeqToSet(onseq)
        overlap == (left.cols \cap right.cols) \ on
        LName(c) == IF c \in overlap THEN c \o lsuf ELSE c
        RName(c) == IF c \in overlap THEN c \o rsuf ELSE c
        lcols == { LName(c) : c \in left.cols \ on }
        outcols == on \cup lcols \cup { RName(c) : c \in right.cols \ on } \cup { "_merge" }
        keys == { Restrict(left.rows[i], on) : i \in 1..Len(left.rows) }
                \cup { Restrict(right.rows[i], on) : i \in 1..Len(right.rows) }
        sorted == SortKeys(keys, onseq)
        Row(k, l, r) ==
            [c \in outcols |->
                IF c \in on THEN k[c]
                ELSE IF c = "_merge"
                     THEN (IF l = None THEN RIGHT_ONLY ELSE IF r = None THEN LEFT_ONLY ELSE BOTH)
                ELSE IF c \in lcols
                     THEN LET c0 == CHOOSE d \in left.cols \ on : LName(d) = c
                          IN  IF l = None THEN FillNaN(c0) ELSE l[1][c0]
                ELSE LET c0 == CHOOSE d \in right.cols \ on : RName(d) = c
                     IN  IF r = None THEN FillNaN(c0) ELSE r[1][c0]]
        Block(k) ==
            LET ls == SelectSeq(left.rows, LAMBDA x : Restrict(x, on) = k)
                rs == SelectSeq(right.rows, LAMBDA x : Restrict(x, on) = k)
            IN  IF rs = << >> THEN [i \in 1..Len(ls) |-> Row(k, Some(ls[i]), None)]
                ELSE IF ls = << >> THEN [i \in 1..Len(rs) |-> Row(k, None, Some(rs[i]))]
                ELSE Flatten([i \in 1..Len(ls) |->
                                 [j \in 1..Len(rs) |-> Row(k, Some(ls[i]), Some(rs[j]))]])
    IN  [ cols |-> outcols,
          rows |-> Flatten([i \in 1..Len(sorted) |-> Block(sorted[i])]) ]

\* pd.merge(left, right, on=onseq, how="left"), no column but the keys shared:
\* the left rows in their order, each once per matching right row, or once with NaN
MergeLeft(left, right, onseq) ==
    LET on == SeqToSet(onseq)
        outcols == left.cols \cup right.cols
        Row(l, r) ==
            [c \in outcols |->
                IF c \in left.cols THEN l[c]
                ELSE IF r = None THEN FillNaN(c) ELSE r[1][c]]
        Block(l) ==
            LET rs == SelectSeq(right.rows, LAMBDA x : Restrict(x, on) = Restrict(l, on))
            IN  IF rs = << >> THEN << Row(l, None) >>
                ELSE [j \in 1..Len(rs) |-> Row(l, Some(rs[j]))]
    IN  [ cols |-> outcols,
          rows |-> Flatten([i \in 1..Len(left.rows) |-> Block(left.rows[i])]) ]

\* df[c] = f(df[c]) for every row, where the column exists
MapColumn(df, c, F(_)) ==
    IF c \notin df.cols THEN df
    ELSE [ cols |-> df.cols,
           rows |-> [i \in 1..Len(df.rows) |-> [df.rows[i] EXCEPT ![c] = F(@)]] ]

\* df[c] = value for every row (a new column)
AddColumn(df, c, F(_)) ==
    [ cols |-> df.cols \cup {c},
      rows |-> [i \in 1..Len(df.rows) |->
                  [d \in df.cols \cup {c} |-> IF d = c THEN F(df.rows[i]) ELSE df.rows[i][d]]] ]

(***************************************************************************)
(* TSEComparator                                                           *)
(***************************************************************************)
MERGE_KEYS == << "TECHNICAL_SUB_ENTITY_ID", "EQUITY_SHARE", "PRODUCT_STREAM", "PRODUCT",
                 "UNCERTAINTY", "VALUATION", "CUT_OFF" >>

\* [k for k in keys if k in cols], in the order of keys
RECURSIVE KeysIn(_, _)
KeysIn(keyseq, cols) ==
    IF keyseq = << >> THEN << >>
    ELSE (IF Head(keyseq) \in cols THEN << Head(keyseq) >> ELSE << >>) \o KeysIn(Tail(keyseq), cols)

\* lines 77-89: the ID column through norm_id, the other merge keys through norm_enum
RECURSIVE NormalizeEnums(_, _)
NormalizeEnums(df, keyseq) ==
    IF keyseq = << >> THEN df
    ELSE NormalizeEnums(MapColumn(df, Head(keyseq), norm_enum), Tail(keyseq))

NormalizeKeys(df) ==
    NormalizeEnums(MapColumn(df, "TECHNICAL_SUB_ENTITY_ID", norm_id), Tail(MERGE_KEYS))

\* the key and year columns of every row, no grouping
Aggregate_ungrouped(df, keyseq, years) == Project(df, SeqToSet(keyseq) \cup years)

\* lines 101-103: one row per key with the year columns summed, or the distinct keys
\* when the side has no year column
Aggregate(df, keyseq, years) ==
    IF years # {} THEN GroupBySum(df, keyseq, years)
    ELSE LET proj == Project(df, SeqToSet(keyseq))
         IN  [cols |-> proj.cols, rows |-> DropDuplicatesOn(proj.rows, proj.cols)]

\* lines 110-115: a merge key the side lacks becomes a column of pd.NA
RECURSIVE EnsureKeys(_, _)
EnsureKeys(df, keyseq) ==
    IF keyseq = << >> THEN df
    ELSE EnsureKeys(IF Head(keyseq) \in df.cols THEN df
                    ELSE AddColumn(df, Head(keyseq), LAMBDA r : PDNA),
                    Tail(keyseq))

\* <y>_Diff = <y>_P1 - <y>_R1 without fillna(0): NaN where either side is NaN
AddDiffs_unfilled(df, common_years) ==
    LET outcols == df.cols \cup { y \o "_Diff" : y \in { z \in common_years :
                                      z \o "_P1" \in df.cols /\ z \o "_R1" \in df.cols } }
    IN  [ cols |-> outcols,
          rows |-> [i \in 1..Len(df.rows) |->
                      [c \in outcols |->
                          IF c \in df.cols THEN df.rows[i][c]
                          ELSE LET y == CHOOSE z \in common_years : z \o "_Diff" = c
                                   a == df.rows[i][y \o "_P1"]
                                   b == df.rows[i][y \o "_R1"]
                               IN  IF a = << >> \/ b = << >> THEN << >> ELSE << a[1] - b[1] >>]] ]

\* lines 126-131: <y>_Diff = <y>_P1.fillna(0) - <y>_R1.fillna(0) for every common year
AddDiffs(df, common_years) ==
    LET outcols == df.cols \cup { y \o "_Diff" : y \in { z \in common_years :
                                      z \o "_P1" \in df.cols /\ z \o "_R1" \in df.cols } }
        Val(cell) == IF cell = << >> THEN 0 ELSE cell[1]
    IN  [ cols |-> outcols,
          rows |-> [i \in 1..Len(df.rows) |->
                      [c \in outcols |->
                          IF c \in df.cols THEN df.rows[i][c]
                          ELSE LET y == CHOOSE z \in common_years : z \o "_Diff" = c
                               IN  << Val(df.rows[i][y \o "_P1"]) - Val(df.rows[i][y \o "_R1"]) >>]] ]

\* lines 137-146: the (ID, name) pairs of one normalized side, the ID through norm_id once
\* more, exact duplicates dropped
NameCandidates(df) ==
    IF "TECHNICAL_SUB_ENTITY_NAME" \notin df.cols THEN << >>
    ELSE LET nm == Project(df, { "TECHNICAL_SUB_ENTITY_ID", "TECHNICAL_SUB_ENTITY_NAME" })
             kept == SelectSeq(nm.rows, LAMBDA r : r["TECHNICAL_SUB_ENTITY_ID"] \notin Missing)
             renorm == MapColumn([cols |-> nm.cols, rows |-> kept],
                                 "TECHNICAL_SUB_ENTITY_ID", norm_id)
         IN  DropDuplicatesOn(renorm.rows, renorm.cols)

\* the name join without drop_duplicates(subset=["TECHNICAL_SUB_ENTITY_ID"])
AttachNames_undeduplicated(merged, p1, r1) ==
    LET candidates == NameCandidates(p1) \o NameCandidates(r1)
        name_map == [ cols |-> { "TECHNICAL_SUB_ENTITY_ID", "TECHNICAL_SUB_ENTITY_NAME" },
                      rows |-> candidates ]
    IN  IF "TECHNICAL_SUB_ENTITY_NAME" \notin p1.cols \cup r1.cols THEN merged
        ELSE MergeLeft(merged, name_map, << "TECHNICAL_SUB_ENTITY_ID" >>)

\* lines 148-152: P1's pairs before R1's, the first pair of every ID kept, joined on the ID
AttachNames(merged, p1, r1) ==
    LET candidates == NameCandidates(p1) \o NameCandidates(r1)
        name_map == [ cols |-> { "TECHNICAL_SUB_ENTITY_ID", "TECHNICAL_SUB_ENTITY_NAME" },
                      rows |-> DropDuplicatesOn(candidates, { "TECHNICAL_SUB_ENTITY_ID" }) ]
    IN  IF "TECHNICAL_SUB_ENTITY_NAME" \notin p1.cols \cup r1.cols THEN merged
        ELSE MergeLeft(merged, name_map, << "TECHNICAL_SUB_ENTITY_ID" >>)

\* both flags computed from ("both", "left_only")
PresenceFlags_left(merged, p1flag, r1flag) ==
    AddColumn(AddColumn(merged, p1flag,
                        LAMBDA r : IF r["_merge"] \in { BOTH, LEFT_ONLY }
                                   THEN CHECK_MARK ELSE CROSS_MARK),
              r1flag,
              LAMBDA r : IF r["_merge"] \in { BOTH, LEFT_ONLY } THEN CHECK_MARK ELSE CROSS_MARK)

\* tse_compare.py lines 154-156, hierarchy_compare.py lines 281-283
PresenceFlags(merged, p1flag, r1flag) ==
    AddColumn(AddColumn(merged, p1flag,
                        LAMBDA r : IF r["_merge"] \in { BOTH, LEFT_ONLY }
                                   THEN CHECK_MARK ELSE CROSS_MARK),
              r1flag,
              LAMBDA r : IF r["_merge"] \in { BOTH, RIGHT_ONLY } THEN CHECK_MARK ELSE CROSS_MARK)

EmptyFrame == [cols |-> {}, rows |-> << >>]

\* lines 96-108: the two sides as they enter the outer merge
P1Aggregate(df_p1) ==
    LET p1 == NormalizeKeys(df_p1)
    IN  Aggregate(p1, KeysIn(MERGE_KEYS, p1.cols), YearColumns(p1.cols))

R1Aggregate(df_r1) ==
    LET r1 == NormalizeKeys(df_r1)
        r1_keys == KeysIn(MERGE_KEYS, r1.cols)
        r1_agg == Aggregate(r1, r1_keys, YearColumns(r1.cols))
    IN  IF "UNITS" \in r1.cols
        THEN MergeLeft(r1_agg, GroupByFirst(r1, r1_keys, "UNITS"), r1_keys)
        ELSE r1_agg

\* lines 139 and 144: p1[name_cols] needs the ID column; lines 102-103: groupby needs a key
CompareRaises(p1, r1) ==
    \/ \E df \in { p1, r1 } :
          /\ "TECHNICAL_SUB_ENTITY_NAME" \in df.cols
          /\ "TECHNICAL_SUB_ENTITY_ID" \notin df.cols
    \/ \E df \in { p1, r1 } :
          YearColumns(df.cols) # {} /\ KeysIn(MERGE_KEYS, df.cols) = << >>

\* TSEComparator.compare, lines 61-168, on the two stored tables
CompareTables(t_p1, t_r1) ==
    LET p1 == NormalizeKeys(t_p1)
        r1 == NormalizeKeys(t_r1)
        common_years == YearColumns(p1.cols) \cap YearColumns(r1.cols)
        base_keys == MERGE_KEYS
        p1_agg == EnsureKeys(P1Aggregate(t_p1), base_keys)
        r1_agg == EnsureKeys(R1Aggregate(t_r1), base_keys)
        merged == MergeOuter(p1_agg, r1_agg, base_keys, "_P1", "_R1")
        named == AttachNames(AddDiffs(merged, common_years), p1, r1)
    IN  IF CompareRaises(p1, r1) THEN [raised |-> TRUE, table |-> EmptyFrame]
        ELSE [raised |-> FALSE, table |-> PresenceFlags(named, "Present_P1", "Present_R1")]

\* compare() that takes a table never set for an empty one
compare_defaulting(df_p1, df_r1) ==
    CompareTables(IF df_p1 = None THEN EmptyFrame ELSE df_p1[1],
                  IF df_r1 = None THEN EmptyFrame ELSE df_r1[1])

\* TSEComparator.compare, lines 57-168; df_p1 and df_r1 are the stored (optional) tables
compare(df_p1, df_r1) ==
    IF df_p1 = None \/ df_r1 = None THEN [raised |-> TRUE, table |-> EmptyFrame]
    ELSE CompareTables(df_p1[1], df_r1[1])

\* DataFrame.rename(columns={old: new})
RenameColumn(df, old, new) ==
    LET outcols == (df.cols \ {old}) \cup {new}
    IN  [ cols |-> outcols,
          rows |-> [i \in 1..Len(df.rows) |->
                      [c \in outcols |-> IF c = new THEN df.rows[i][old] ELSE df.rows[i][c]]] ]

\* TSEComparator.set_p1_df: the table the comparator stores
StoredP1(df) ==
    IF "TECHNICAL_SUB_ENTITY_ID" \notin df.cols /\ "TSE ID" \in df.cols
    THEN RenameColumn(df, "TSE ID", "TECHNICAL_SUB_ENTITY_ID")
    ELSE df

(***************************************************************************)
(* HierarchyComparison                                                     *)
(***************************************************************************)
\* _ensure_cols: a column the table lacks is added, filled with pd.NA
RECURSIVE _ensure_cols(_, _)
_ensure_cols(df, colseq) ==
    IF colseq = << >> THEN df
    ELSE _ensure_cols(IF Head(colseq) \in df.cols THEN df
                      ELSE AddColumn(df, Head(colseq), LAMBDA r : PDNA),
                      Tail(colseq))

\* lines 76-80, 233-237: the first of the alternative ID headers becomes the ID column
EnsureTseKey(df) ==
    LET alts == KeysIn(<< "TSE ID", "TSE_ID", "TSE" >>, df.cols)
    IN  IF "TECHNICAL_SUB_ENTITY_ID" \notin df.cols /\ alts # << >>
        THEN RenameColumn(df, alts[1], "TECHNICAL_SUB_ENTITY_ID")
        ELSE df

\* lines 213-217, 251-253: the ID normalized, the two shadow name columns added
WithShadows(df) ==
    AddColumn(AddColumn(MapColumn(df, "TECHNICAL_SUB_ENTITY_ID", _norm_id),
                        "_AE_NAME_norm", LAMBDA r : _norm_name(r["ACTIVITY_ENTITY_NAME"])),
              "_TE_NAME_norm", LAMBDA r : _norm_name(r["TECHNICAL_ENTITY_NAME"]))

P1Need == << "TECHNICAL_SUB_ENTITY_ID", "TECHNICAL_SUB_ENTITY_NAME",
             "ACTIVITY_ENTITY_NAME", "TECHNICAL_ENTITY_NAME" >>

\* HierarchyComparison._prepare_p1
_prepare_p1(df) ==
    LET out == WithShadows(_ensure_cols(df, P1Need))
        keep == SeqToSet(P1Need) \cup { "_AE_NAME_norm", "_TE_NAME_norm" }
        kept == Project(out, keep)
    IN  [cols |-> keep, rows |-> DropDuplicatesOn(kept.rows, keep)]

R1Need == << "TECHNICAL_SUB_ENTITY_ID", "TECHNICAL_SUB_ENTITY_NAME", "ACTIVITY_ENTITY_NAME",
             "TECHNICAL_ENTITY_NAME", "UNIQUE_FIELD_NAME", "PMASTER_NAME", "PROJECT_NAME" >>

\* lines 227-230: PMASTER_NAME / PROJECT_NAME stand in for an absent AE / TE name column
MapR1Names(df) ==
    LET ae == IF "ACTIVITY_ENTITY_NAME" \notin df.cols /\ "PMASTER_NAME" \in df.cols
              THEN AddColumn(df, "ACTIVITY_ENTITY_NAME", LAMBDA r : r["PMASTER_NAME"])
              ELSE df
    IN  IF "TECHNICAL_ENTITY_NAME" \notin ae.cols /\ "PROJECT_NAME" \in ae.cols
        THEN AddColumn(ae, "TECHNICAL_ENTITY_NAME", LAMBDA r : r["PROJECT_NAME"])
        ELSE ae

\* HierarchyComparison._prepare_r1
_prepare_r1(df) ==
    LET out == WithShadows(_ensure_cols(EnsureTseKey(MapR1Names(df)), R1Need))
        keep == SeqToSet(R1Need) \cup { "_AE_NAME_norm", "_TE_NAME_norm" }
        kept == Project(out, keep)
    IN  [cols |-> keep, rows |-> DropDuplicatesOn(kept.rows, keep)]

\* Series.notna() on one cell
NotNa(cell) == cell \notin Missing

\* lines 286-296: both shadows present and equal
NameMatch(merged, shadow, flag) ==
    AddColumn(merged, flag,
              LAMBDA r : IF /\ NotNa(r[shadow \o "_P1"])
                            /\ NotNa(r[shadow \o "_R1"])
                            /\ r[shadow \o "_P1"] = r[shadow \o "_R1"]
                         THEN CHECK_MARK ELSE CROSS_MARK)

\* HierarchyComparison.build, lines 273-312, on the two stored tables
BuildTables(t_p1, t_r1) ==
    LET p1 == _prepare_p1(t_p1)
        r1 == _prepare_r1(t_r1)
        merged == MergeOuter(p1, r1, << "TECHNICAL_SUB_ENTITY_ID" >>, "_P1", "_R1")
        flagged == PresenceFlags(merged, "P1_Present", "R1_Present")
        matched == NameMatch(NameMatch(flagged, "_AE_NAME_norm", "AE_Name_Match"),
                             "_TE_NAME_norm", "TE_Name_Match")
    IN  Project(matched, matched.cols \ { "_merge" })

\* HierarchyComparison.build; df_p1 and df_r1 are the stored (optional) tables
build(df_p1, df_r1) ==
    IF df_p1 = None \/ df_r1 = None THEN [raised |-> TRUE, table |-> EmptyFrame]
    ELSE [raised |-> FALSE, table |-> BuildTables(df_p1[1], df_r1[1])]

HierarchyCols == { "VERSION_NAME", "OBJECTIVE_ID", "OBJECTIVE_NAME", "PROJECT_NAME", "PROJECT_ID",
                   "UNIQUE_FIELD_NAME", "TECHNICAL_SUB_ENTITY_NAME", "TECHNICAL_SUB_ENTITY_ID",
                   "TECHNICAL_ENTITY_NAME", "TECHNICAL_ENTITY_ID",
                   "AOO_LOB_RS1_P1_HIERARCHY_ALIGNMENT", "PMASTER_NAME", "PMASTER_ID" }

\* R1Loader.create_project_hierarchy on the loaded table
create_project_hierarchy(df) ==
    LET existing_cols == HierarchyCols \cap df.cols
        kept == Project(df, existing_cols)
    IN  [cols |-> existing_cols, rows |-> DropDuplicatesOn(kept.rows, { "OBJECTIVE_ID" })]

(***************************************************************************)
(* LoaderP1TSE.load_p1tse / LoaderP1AE: the "Uncertainty/Valuation" column *)
(***************************************************************************)
LOW_TXT == << "L","o","w" >>
HIGH_TXT == << "H","i","g","h" >>
SEC_TXT == << "S","E","C" >>
PR_TXT == << "P","R" >>
YAP_TXT == << "Y","A","P" >>

\* value_str.split(' ', 1) of a text that holds a space
SplitFirstSpace(s) ==
    LET i == CHOOSE k \in 1..Len(s) : s[k] = " " /\ \A j \in 1..(k - 1) : s[j] # " "
    IN  << SubSeq(s, 1, i - 1), SubSeq(s, i + 1, Len(s)) >>

\* the split without the branch for 'SEC'
split_uncertainty_valuation_unmapped(value) ==
    IF value \in Missing THEN << << >>, << >> >>
    ELSE LET value_str == Strip(AsStr(value))
         IN  IF value_str = LOW_TXT THEN << LOW_TXT, PR_TXT >>
             ELSE IF value_str = HIGH_TXT THEN << HIGH_TXT, PR_TXT >>
             ELSE IF \E i \in 1..Len(value_str) : value_str[i] = " " THEN SplitFirstSpace(value_str)
             ELSE << value_str, << >> >>

\* LoaderP1TSE.load_p1tse: split_uncertainty_valuation, on one cell
split_uncertainty_valuation(value) ==
    IF value \in Missing THEN << << >>, << >> >>
    ELSE LET value_str == Strip(AsStr(value))
         IN  IF value_str = LOW_TXT THEN << LOW_TXT, PR_TXT >>
             ELSE IF value_str = HIGH_TXT THEN << HIGH_TXT, PR_TXT >>
             ELSE IF value_str = SEC_TXT THEN << LOW_TXT, YAP_TXT >>
             ELSE IF \E i \in 1..Len(value_str) : value_str[i] = " " THEN SplitFirstSpace(value_str)
             ELSE << value_str, << >> >>

\* LoaderP1AE._split_uncertainty_valuation: split_value, on one cell
_split_uncertainty_valuation(value) ==
    IF value \in Missing THEN << << >>, << >> >>
    ELSE LET s == Strip(AsStr(value))
         IN  IF s = LOW_TXT THEN << LOW_TXT, PR_TXT >>
             ELSE IF s = HIGH_TXT THEN << HIGH_TXT, PR_TXT >>
             ELSE IF s = SEC_TXT THEN << LOW_TXT, YAP_TXT >>
             ELSE IF \E i \in 1..Len(s) : s[i] = " " THEN SplitFirstSpace(s)
             ELSE << s, << >> >>

(***************************************************************************)
(* R1Loader.load_data                                                      *)
(***************************************************************************)
DigitChars == << "0","1","2","3","4","5","6","7","8","9" >>

\* int(text) of a text of decimal digits
RECURSIVE ToInt(_)
ToInt(s) ==
    IF s = << >> THEN 0
    ELSE 10 * ToInt(SubSeq(s, 1, Len(s) - 1))
         + ((CHOOSE d \in 1..10 : DigitChars[d] = s[Len(s)]) - 1)

\* str(n) of a natural number
RECURSIVE IntStr(_)
IntStr(n) ==
    IF n < 10 THEN << DigitChars[n + 1] >>
    ELSE IntStr(n \div 10) \o << DigitChars[(n % 10) + 1] >>

CURRENT_YEAR == << "C","U","R","R","E","N","T","_","Y","E","A","R" >>

fixed_columns ==
    << << "V","E","R","S","I","O","N","_","N","A","M","E" >>,
       << "O","B","J","E","C","T","I","V","E","_","I","D" >>,
       << "O","B","J","E","C","T","I","V","E","_","N","A","M","E" >>,
       << "E","Q","U","I","T","Y","_","S","H","A","R","E" >>,
       << "P","R","O","D","U","C","T","_","S","T","R","E","A","M" >>,
       << "P","R","O","D","U","C","T" >>,
       << "U","N","C","E","R","T","A","I","N","T","Y" >>,
       << "V","A","L","U","A","T","I","O","N" >>,
       << "C","U","T","_","O","F","F" >>,
       << "A","P","P","R","O","V","A","L" >>,
       << "P","R","O","J","E","C","T","_","N","A","M","E" >>,
       << "P","R","O","J","E","C","T","_","I","D" >>,
       << "U","N","I","Q","U","E","_","F","I","E","L","D","_","N","A","M","E" >>,
       << "T","E","C","H","N","I","C","A","L","_","S","U","B","_","E","N","T","I","T","Y","_","N","A","M","E" >>,
       << "T","E","C","H","N","I","C","A","L","_","S","U","B","_","E","N","T","I","T","Y","_","I","D" >>,
       << "T","E","C","H","N","I","C","A","L","_","E","N","T","I","T","Y","_","N","A","M","E" >>,
       << "T","E","C","H","N","I","C","A","L","_","E","N","T","I","T","Y","_","I","D" >>,
       << "A","O","O","_","L","O","B","_","R","S","1","_","P","1","_","H","I","E","R","A","R","C","H","Y","_","A","L","I","G","N","M","E","N","T" >>,
       << "P","M","A","S","T","E","R","_","N","A","M","E" >>,
       << "P","M","A","S","T","E","R","_","I","D" >>,
       << "R","E","S","O","U","R","C","E","_","V","O","L","U","M","E","_","C","L","A","S","S" >>,
       << "R","E","S","O","U","R","C","E","_","V","O","L","U","M","E","_","S","U","B","_","C","L","A","S","S" >>,
       << "E","C","O","N","O","M","I","C","_","C","U","T","_","O","F","F" >>,
       << "T","E","C","H","N","I","C","A","L","_","C","U","T","_","O","F","F","_","D","A","T","E" >>,
       << "L","I","C","E","N","C","E","_","C","U","T","_","O","F","F","_","D","A","T","E" >>,
       << "A","E","_","C","A","P","E","X","_","E","X","P","E","X","_","S","T","A","T","U","S" >>,
       << "U","N","I","T","S" >> >>

\* _sort_production_columns: the sort key, None for float("inf")
_sort_production_columns(col) ==
    LET parts == SplitOn(col, << "_" >>)
        last == parts[Len(parts)]
    IN  IF col = CURRENT_YEAR THEN Some(0)
        ELSE IF IsDigitStr(last) THEN Some(ToInt(last))
        ELSE None

\* a <= b for two sort keys
KeyLeq(a, b) == b = None \/ (a # None /\ a[1] <= b[1])

\* list.sort(key=...): stable, ascending
RECURSIVE SortByKey(_)
SortByKey(cols) ==
    IF cols = << >> THEN << >>
    ELSE LET rest == SortByKey(SubSeq(cols, 1, Len(cols) - 1))
             x == cols[Len(cols)]
             n == Cardinality({ i \in 1..Len(rest) :
                                  KeyLeq(_sort_production_columns(rest[i]),
                                         _sort_production_columns(x)) })
         IN  SubSeq(rest, 1, n) \o << x >> \o SubSeq(rest, n + 1, Len(rest))

\* the production columns renamed by their place in the sorted list
production_columns(cols) ==
    SortByKey(SelectSeq(cols, LAMBDA col : StartsWith(col, CURRENT_YEAR)))

\* the same with the year taken from the column's own index, not from its place
rename_map_by_index(cols, year) ==
    LET pc == production_columns(cols)
    IN  [col \in SeqToSet(pc) |->
            IF _sort_production_columns(col) = None THEN IntStr(year)
            ELSE IntStr(year + _sort_production_columns(col)[1])]

\* rename_map = {col: str(base_year + i) for i, col in enumerate(self.production_columns)}
rename_map(cols, year) ==
    LET pc == production_columns(cols)
    IN  [col \in SeqToSet(pc) |->
            IntStr(year + (CHOOSE i \in 1..Len(pc) : pc[i] = col) - 1)]

\* R1Loader.load_data: the columns of self.df
load_data(cols, year) ==
    LET pc == production_columns(cols)
        rn == rename_map(cols, year)
        renamed == [i \in 1..Len(cols) |-> IF cols[i] \in DOMAIN rn THEN rn[cols[i]] ELSE cols[i]]
        all_columns == fixed_columns \o [i \in 1..Len(pc) |-> rn[pc[i]]]
    IN  SelectSeq(all_columns, LAMBDA col : col \in SeqToSet(renamed))

(***************************************************************************)
(* LoaderP1TSE.extract_production_data.  The table df_transposed is        *)
(* [metrics |-> the production column labels, rows |-> its rows]; a row    *)
(* carries the metadata cells and one Value cell per label.  A value is a  *)
(* fraction [num, den]; the rounding of floats is not modelled.            *)
(***************************************************************************)
Frac(n, d) == [num |-> n, den |-> d]

HasSub(s, p) == \E i \in 1..(Len(s) + 1) : StartsWith(SubSeq(s, i, Len(s)), p)

\* int(x) of a text: Some(n) for decimal digits (blanks around them allowed), None for ValueError
PyInt(text) ==
    LET s == Strip(text)
    IN  IF IsDigitStr(s) THEN Some(ToInt(s)) ELSE None

\* calendar.isleap
isleap(year) == year % 4 = 0 /\ (year % 100 # 0 \/ year % 400 = 0)

\* config.settings.DAYS_IN_YEAR
DAYS_IN_YEAR == [year \in 2025..2100 |-> IF isleap(year) THEN 366 ELSE 365]

\* get_days_in_year with every fourth year a leap year
get_days_in_year_julian(year) ==
    IF year \in Missing THEN 365
    ELSE IF PyInt(year) = None THEN 365
    ELSE LET y == PyInt(year)[1]
         IN  IF y % 4 = 0 THEN 366 ELSE 365

\* get_days_in_year: int(year) raises TypeError on None and pd.NA, ValueError on NaN and on
\* a text that is no number; both end in 365
get_days_in_year(year) ==
    IF year \in Missing THEN 365
    ELSE IF PyInt(year) = None THEN 365
    ELSE LET y == PyInt(year)[1]
         IN  IF (y % 4 = 0 /\ y % 100 # 0) \/ (y % 400 = 0) THEN 366 ELSE 365

\* re.match(f"^{i:02d}\\.", str(col)) for some i in 1..22
IsProductionColumn(col) ==
    /\ Len(col) >= 3
    /\ col[1] \in Digits /\ col[2] \in Digits /\ col[3] = "."
    /\ ToInt(SubSeq(col, 1, 2)) \in 1..22

\* Series.astype(str).str.extract(r'(\d{4})')[0] on one cell
YearOnly(cell) ==
    LET s == AsStr(cell)
        hits == { i \in 1..(Len(s) - 3) : IsDigitStr(SubSeq(s, i, i + 3)) }
    IN  IF hits = {} THEN NAN
        ELSE LET i == CHOOSE k \in hits : \A j \in hits : k <= j
             IN  SubSeq(s, i, i + 3)

\* pd.melt, the 'ratio' filter and the YearOnly column: one long row per (row, production column)
df_melted(df) ==
    { [ idx |-> i,
        TECHNICAL_SUB_ENTITY_ID |-> df.rows[i].TECHNICAL_SUB_ENTITY_ID,
        TECHNICAL_SUB_ENTITY_NAME |-> df.rows[i].TECHNICAL_SUB_ENTITY_NAME,
        UNCERTAINTY |-> df.rows[i].UNCERTAINTY,
        VALUATION |-> df.rows[i].VALUATION,
        Production_Metric |-> df.metrics[j],
        Value |-> df.rows[i].values[j],
        YearOnly |-> YearOnly(df.rows[i].Year) ] :
      i \in 1..Len(df.rows),
      j \in { k \in 1..Len(df.metrics) :
                /\ IsProductionColumn(df.metrics[k])
                /\ ~HasSub(Lower(df.metrics[k]), << "r","a","t","i","o" >>) } }

\* the cells of a long row under group_keys
GroupKey(r) ==
    << r.TECHNICAL_SUB_ENTITY_ID, r.TECHNICAL_SUB_ENTITY_NAME, r.UNCERTAINTY, r.VALUATION,
       r.Production_Metric, r.YearOnly >>

\* groupby(group_keys): rows with a missing key cell belong to no group
Grouped(rows) == { r \in rows : \A k \in 1..6 : GroupKey(r)[k] \notin Missing }

\* .agg({'Value': 'sum'}): missing values are skipped
RECURSIVE SumValue(_)
SumValue(rows) ==
    IF rows = {} THEN 0
    ELSE LET r == CHOOSE x \in rows : TRUE
         IN  (IF r.Value = << >> THEN 0 ELSE r.Value[1]) + SumValue(rows \ { r })

\* df_annual with the sum of every group divided by 12
annual_by_twelve(df) ==
    LET rows == Grouped(df_melted(df))
    IN  { [ key |-> k,
            MonthCount |-> Cardinality({ r \in rows : GroupKey(r) = k }),
            Value |-> Frac(SumValue({ r \in rows : GroupKey(r) = k }), 12) ] :
          k \in { GroupKey(r) : r \in rows } }

\* df_annual after the month-aware averaging
annual(df) ==
    LET rows == Grouped(df_melted(df))
    IN  { [ key |-> k,
            MonthCount |-> Cardinality({ r \in rows : GroupKey(r) = k }),
            Value |-> LET n == Cardinality({ r \in rows : GroupKey(r) = k })
                          s == SumValue({ r \in rows : GroupKey(r) = k })
                      IN  IF n # 0 /\ n > 1 THEN Frac(s, n) ELSE Frac(s, 1) ] :
          k \in { GroupKey(r) : r \in rows } }

\* pivot_table(index=index_cols, columns='YearOnly', values='Value'), the parsed metric
\* columns, the day scaling and the final selection of columns
production(ann) ==
    LET years == { a.key[6] : a \in ann }
        year_columns == { c \in years : IsDigitStr(c) }
        index == { SubSeq(a.key, 1, 5) : a \in ann }
        Cell(ix, y) ==
            IF \E a \in ann : a.key = ix \o << y >>
            THEN LET a == CHOOSE x \in ann : x.key = ix \o << y >>
                 IN  IF y \in year_columns
                     THEN << Frac(a.Value.num * get_days_in_year(y), a.Value.den) >>
                     ELSE << a.Value >>
            ELSE << >>
    IN  [ years |-> years,
          rows |-> { [ TECHNICAL_SUB_ENTITY_ID |-> ix[1],
                       TECHNICAL_SUB_ENTITY_NAME |-> ix[2],
                       UNCERTAINTY |-> ix[3],
                       VALUATION |-> ix[4],
                       metric |-> _parse_production_metric(ix[5]).value,
                       year |-> [y \in years |-> Cell(ix, y)] ] : ix \in index } ]

\* the columns a table's consumer takes for year columns: [c for c in columns if str(c).isdigit()]
year_columns_of(columns) == SelectSeq(columns, LAMBDA c : IsDigitStr(c))

\* the rows of pool at the indices S, in the order of pool
RECURSIVE RowsAt(_, _, _)
RowsAt(pool, S, i) ==
    IF i > Len(pool) THEN << >>
    ELSE (IF i \in S THEN << pool[i] >> ELSE << >>) \o RowsAt(pool, S, i + 1)

(***************************************************************************)
(* LoaderP1Hierarchy._maybe_promote_header_row.  A sheet is [columns |->   *)
(* the header, rows |-> the data rows], every row a sequence of cells in   *)
(* the order of the header.                                                *)
(***************************************************************************)
_HEADER_CANDIDATES ==
    { << "a","c","t","i","v","i","t","y"," ","e","n","t","i","t","y" >>,
      << "a","c","t","i","v","i","t","y"," ","e","n","t","i","t","y"," ","i","d" >>,
      << "t","e","c","h","n","i","c","a","l"," ","e","n","t","i","t","y" >>,
      << "t","e","c","h","n","i","c","a","l"," ","e","n","t","i","t","y"," ","i","d" >>,
      << "t","e","c","h","n","i","c","a","l"," ","s","u","b"," ","e","n","t","i","t","y" >>,
      << "t","e","c","h","n","i","c","a","l"," ","s","u","b"," ","e","n","t","i","t","y"," ","i","d" >>,
      << "t","e","c","h","n","i","c","a","l"," ","s","u","b","-","e","n","t","i","t","y" >>,
      << "t","e","c","h","n","i","c","a","l"," ","s","u","b","-","e","n","t","i","t","y"," ","i","d" >>,
      << "t","e","c","h","n","i","c","a","l","_","s","u","b","_","e","n","t","i","t","y" >>,
      << "t","e","c","h","n","i","c","a","l","_","s","u","b","_","e","n","t","i","t","y"," ","i","d" >>,
      << "t","s","e"," ","i","d" >> }

UNNAMED == << "u","n","n","a","m","e","d" >>

\* sum(c.lower().startswith("unnamed") for c in cols)
unnamed_count(cols) ==
    Cardinality({ i \in 1..Len(cols) : StartsWith(Lower(cols[i]), UNNAMED) })

have_key_in_cols(cols) ==
    \E i \in 1..Len(cols) : \E lbl \in _HEADER_CANDIDATES : HasSub(Lower(Strip(cols[i])), lbl)

\* the header passes only when it has no "Unnamed" column at all
header_looks_fine_strict(cols) ==
    have_key_in_cols(cols) /\ unnamed_count(cols) = 0

\* have_key_in_cols and unnamed_ratio < 0.4, the ratio being unnamed_count / max(len(cols), 1)
header_looks_fine(cols) ==
    have_key_in_cols(cols)
    /\ 5 * unnamed_count(cols) < 2 * (IF Len(cols) > 1 THEN Len(cols) ELSE 1)

\* the number of cells of the row that are a recognized label
row_score(row) ==
    Cardinality({ k \in 1..Len(row) : Lower(Strip(AsStr(row[k]))) \in _HEADER_CANDIDATES })

\* the scan over every row of the sheet
best_row_idx_unbounded(rows) ==
    LET scan_n == Len(rows)
    IN  CHOOSE i \in 1..scan_n :
            /\ \A j \in 1..scan_n : row_score(rows[j]) <= row_score(rows[i])
            /\ \A j \in 1..(i - 1) : row_score(rows[j]) < row_score(rows[i])

\* the scan of the first min(8, len(df)) rows: the first row of the highest score
best_row_idx(rows) ==
    LET scan_n == IF Len(rows) < 8 THEN Len(rows) ELSE 8
    IN  CHOOSE i \in 1..scan_n :
            /\ \A j \in 1..scan_n : row_score(rows[j]) <= row_score(rows[i])
            /\ \A j \in 1..(i - 1) : row_score(rows[j]) < row_score(rows[i])

\* the promotion of row best: the rows below it under its cells as header, the columns
\* without any value dropped (dropna(axis=1, how="all"))
promote(df, best) ==
    LET new_cols == [k \in 1..Len(df.rows[best]) |-> Strip(AsStr(df.rows[best][k]))]
        below == SubSeq(df.rows, best + 1, Len(df.rows))
        keep == { k \in 1..Len(new_cols) : \E i \in 1..Len(below) : below[i][k] \notin Missing }
    IN  [ columns |-> RowsAt(new_cols, keep, 1),
          rows |-> [i \in 1..Len(below) |-> RowsAt(below[i], keep, 1)] ]

_maybe_promote_header_row(df) ==
    IF df.rows = << >> \/ df.columns = << >> THEN df
    ELSE IF header_looks_fine(df.columns) THEN df
    ELSE IF row_score(df.rows[best_row_idx(df.rows)]) >= 3 THEN promote(df, best_row_idx(df.rows))
    ELSE df

(***************************************************************************)
(* Inputs                                                                  *)
(***************************************************************************)
IdAlphabet == { " ", "n", "a", "N", "A", ".", "0" }
IdStrings == SeqsUpTo(IdAlphabet, MaxIdLen)

HeadTokens == { << "o","i" >>, << "-" >> }
TailTokens == { << "t","r" >>, << "-" >>, << "5","%" >>, << "u","n","t" >> }
MetricPrefixes == { << "0","1","."," " >>, << >> }

\* the label of the specification's example, the same label in the documented layout
\* "NN. <PRODUCT> <STREAM> - <EQUITY>% <CUT_OFF> - <TYPE>", and that one spaced irregularly
CanonicalLabel ==
    JoinSp(<< << "0","1","." >>, << "O","I","L" >>, << "S","W","I","S" >>, << "-" >>,
              << "4","5","%" >>, << "-" >>, << "N","o","t" >>, << "A","p","p","l","i","e","d" >>,
              << "-" >>, << "S","a","l","e","s" >> >>)
LayoutLabel ==
    JoinSp(<< << "0","1","." >>, << "O","I","L" >>, << "S","W","I","S" >>, << "-" >>,
              << "4","5","%" >>, << "N","o","t" >>, << "A","p","p","l","i","e","d" >>,
              << "-" >>, << "S","a","l","e","s" >> >>)
SpacedLabel ==
    << "0","1","."," ","o","i","l","\t","s","w"," "," ","-"," ","4","5","%"," "," ","t","r"," ","-","\t","x"," " >>

\* labels of up to two leading tokens and, after two, up to MaxTailTokens further tokens
MetricInputs ==
    { p \o JoinSp(h) : p \in MetricPrefixes, h \in SeqsUpTo(HeadTokens, 2) }
    \cup { p \o JoinSp(h \o t) : p \in MetricPrefixes, h \in [1..2 -> HeadTokens],
                                 t \in SeqsUpTo(TailTokens, MaxTailTokens) }
    \cup { CanonicalLabel, LayoutLabel, SpacedLabel, NAN, PYNONE }

Num(n) == << n >>
NaNNum == << >>

P1Cols == SeqToSet(MERGE_KEYS) \cup { "TECHNICAL_SUB_ENTITY_NAME", "TYPE", "2025", "2026" }
R1Cols == SeqToSet(MERGE_KEYS) \cup { "TECHNICAL_SUB_ENTITY_NAME", "UNITS", "APPROVAL", "2025", "2027" }

KeyCells(id, product, cut_off) ==
    ("TECHNICAL_SUB_ENTITY_ID" :> id) @@ ("EQUITY_SHARE" :> << "4","5" >>)
    @@ ("PRODUCT_STREAM" :> << "s" >>) @@ ("PRODUCT" :> product)
    @@ ("UNCERTAINTY" :> << "L","o","w" >>) @@ ("VALUATION" :> << "P","R" >>)
    @@ ("CUT_OFF" :> cut_off)

P1Row(id, product, cut_off, name, type, v2025, v2026) ==
    KeyCells(id, product, cut_off) @@ ("TECHNICAL_SUB_ENTITY_NAME" :> name)
    @@ ("TYPE" :> type) @@ ("2025" :> v2025) @@ ("2026" :> v2026)

R1Row(id, product, cut_off, name, units, approval, v2025, v2027) ==
    KeyCells(id, product, cut_off) @@ ("TECHNICAL_SUB_ENTITY_NAME" :> name)
    @@ ("UNITS" :> units) @@ ("APPROVAL" :> approval) @@ ("2025" :> v2025) @@ ("2027" :> v2027)

\* rows of a P1 production table: two spellings of one key with different names and types,
\* a zero observation, and a key R1 does not have, its ID ending in ".0" twice
P1Pool ==
    << P1Row(<< "t","1" >>, << "o","i","l" >>, << "u" >>, << "A","l" >>, << "S" >>, Num(5), Num(1)),
       P1Row(<< " ","T","1",".","0" >>, << "O","i","l"," " >>, << "U" >>, << "B","e" >>, << "P" >>, Num(2), NaNNum),
       P1Row(<< "t","2" >>, << "g","a","s" >>, << "n","a","n" >>, << "G","a" >>, << "S" >>, Num(0), NaNNum),
       P1Row(<< "t","4",".","0",".","0" >>, << "o","i","l" >>, << "u" >>, << "D","e" >>, << "S" >>, Num(9), Num(2)) >>

\* rows of an R1 production table: two rows of one key with different units and approvals,
\* a zero observation with an empty CUT_OFF cell, and a key P1 does not have
R1Pool ==
    << R1Row(<< "T","1" >>, << "O","I","L" >>, << "U" >>, << "A","l" >>, << "b" >>, << "y" >>, Num(5), Num(4)),
       R1Row(<< "t","1"," " >>, << "o","i","l" >>, << "u" >>, << "Z","z" >>, NAN, << "n" >>, Num(1), NaNNum),
       R1Row(<< "T","2" >>, << "G","A","S" >>, NAN, NAN, << "m" >>, << "y" >>, Num(0), Num(7)),
       R1Row(<< "T","3" >>, << "O","I","L" >>, << "U" >>, << "C","e" >>, << "b" >>, << "y" >>, Num(3), Num(4)) >>

\* the tables of at most MaxRows rows taken from pool
TablesOf(pool, cols) ==
    { [cols |-> cols, rows |-> RowsAt(pool, S, 1)] :
        S \in { T \in SUBSET (1..Len(pool)) : Cardinality(T) <= MaxRows } }

\* P1 tables: all columns; no CUT_OFF column; no year column; the ID under the header "TSE ID"
P1Tables ==
    UNION { { t,
              Project(t, t.cols \ { "CUT_OFF" }),
              Project(t, t.cols \ { "2025", "2026" }),
              RenameColumn(t, "TECHNICAL_SUB_ENTITY_ID", "TSE ID") } : t \in TablesOf(P1Pool, P1Cols) }

\* R1 tables: all columns; no UNITS column
R1Tables ==
    UNION { { t, Project(t, t.cols \ { "UNITS" }) } : t \in TablesOf(R1Pool, R1Cols) }

P1HierCols == { "TECHNICAL_SUB_ENTITY_ID", "TECHNICAL_SUB_ENTITY_NAME",
                "ACTIVITY_ENTITY_NAME", "TECHNICAL_ENTITY_NAME" }
R1HierCols == { "OBJECTIVE_ID", "TECHNICAL_SUB_ENTITY_ID", "TECHNICAL_SUB_ENTITY_NAME",
                "TECHNICAL_ENTITY_NAME", "PMASTER_NAME", "PROJECT_NAME", "UNIQUE_FIELD_NAME" }

P1HierRow(id, tse, ae, te) ==
    ("TECHNICAL_SUB_ENTITY_ID" :> id) @@ ("TECHNICAL_SUB_ENTITY_NAME" :> tse)
    @@ ("ACTIVITY_ENTITY_NAME" :> ae) @@ ("TECHNICAL_ENTITY_NAME" :> te)

R1HierRow(obj, id, tse, te, pmaster, project) ==
    ("OBJECTIVE_ID" :> obj) @@ ("TECHNICAL_SUB_ENTITY_ID" :> id)
    @@ ("TECHNICAL_SUB_ENTITY_NAME" :> tse) @@ ("TECHNICAL_ENTITY_NAME" :> te)
    @@ ("PMASTER_NAME" :> pmaster) @@ ("PROJECT_NAME" :> project)
    @@ ("UNIQUE_FIELD_NAME" :> << "f" >>)

\* rows of a P1 hierarchy: one sub-entity under two activity entities, one whose names are
\* missing the way LoaderP1Hierarchy leaves them (pd.NA, blank text), the first row once more
P1HierPool ==
    << P1HierRow(<< "t","1" >>, << "n","1" >>, << "A","l" >>, << "N","o" >>),
       P1HierRow(<< " ","T","1" >>, << "n","1" >>, << "B","e" >>, << "N","o" >>),
       P1HierRow(<< "t","2" >>, << "n","2" >>, PDNA, << " " >>),
       P1HierRow(<< "t","1" >>, << "n","1" >>, << "A","l" >>, << "N","o" >>) >>

\* rows of the R1 table: one sub-entity under two objectives, an objective listed twice with
\* empty name cells, a sub-entity P1 does not have
R1HierPool ==
    << R1HierRow(<< "o","1" >>, << "T","1" >>, << "n","1" >>, << "n","o"," " >>, << "a","l" >>, << "p" >>),
       R1HierRow(<< "o","2" >>, << "t","1",".","0" >>, << "n","1" >>, << "S","o" >>, << "A","L" >>, << "q" >>),
       R1HierRow(<< "o","1" >>, << "t","2" >>, NAN, NAN, NAN, << "N","O" >>),
       R1HierRow(<< "o","3" >>, << "t","3" >>, << "n","3" >>, << "N","o" >>, << "B","e" >>, << "p" >>) >>

\* P1 hierarchy tables: all columns; no ACTIVITY_ENTITY_NAME column
P1HierTables ==
    UNION { { t, Project(t, t.cols \ { "ACTIVITY_ENTITY_NAME" }) } : t \in TablesOf(P1HierPool, P1HierCols) }

\* R1 hierarchy tables: all columns; no PMASTER_NAME column; no TECHNICAL_ENTITY_NAME column
R1HierTables ==
    UNION { { t,
              Project(t, t.cols \ { "PMASTER_NAME" }),
              Project(t, t.cols \ { "TECHNICAL_ENTITY_NAME" }) } : t \in TablesOf(R1HierPool, R1HierCols) }

\* "Uncertainty/Valuation" cells: up to MaxUvTokens words, one space or two between them,
\* with or without a space in front or behind; a tab between two words; missing cells
UvTokens == { LOW_TXT, HIGH_TXT, SEC_TXT, PR_TXT, << "X" >> }

RECURSIVE JoinWith(_, _)
JoinWith(parts, sep) ==
    IF parts = << >> THEN << >>
    ELSE IF Len(parts) = 1 THEN parts[1]
    ELSE parts[1] \o sep \o JoinWith(Tail(parts), sep)

UvValues ==
    { lead \o JoinWith(toks, sep) \o trail :
        lead \in { << >>, << " " >> }, trail \in { << >>, << " " >> },
        sep \in { << " " >>, << " ", " " >> }, toks \in SeqsUpTo(UvTokens, MaxUvTokens) }
    \cup { LOW_TXT \o << "\t" >> \o PR_TXT } \cup Missing

\* CSV headers: up to MaxCsvCols different columns in any order
CsvColumnPool ==
    { CURRENT_YEAR,
      CURRENT_YEAR \o << "_","1" >>, CURRENT_YEAR \o << "_","2" >>, CURRENT_YEAR \o << "_","3" >>,
      CURRENT_YEAR \o << "_","x" >>,
      << "U","N","I","T","S" >>, << "E","X","T","R","A" >> }

CsvHeaders ==
    { h \in SeqsUpTo(CsvColumnPool, MaxCsvCols) : \A i, j \in 1..Len(h) : h[i] = h[j] => i = j }

\* monthly and yearly rows of a P1 TSE sheet: two sub-entities, years 2025, 2024, 2100, 2000,
\* a blank value, a "Total" row without a year, a row without an ID
TseRowPool ==
    << [TECHNICAL_SUB_ENTITY_ID |-> << "7" >>, TECHNICAL_SUB_ENTITY_NAME |-> << "n" >>, UNCERTAINTY |-> LOW_TXT, VALUATION |-> PR_TXT, Year |-> << "2","0","2","5"," ","0","1" >>, V |-> << 100 >>],
       [TECHNICAL_SUB_ENTITY_ID |-> << "7" >>, TECHNICAL_SUB_ENTITY_NAME |-> << "n" >>, UNCERTAINTY |-> LOW_TXT, VALUATION |-> PR_TXT, Year |-> << "2","0","2","5"," ","0","2" >>, V |-> << 200 >>],
       [TECHNICAL_SUB_ENTITY_ID |-> << "7" >>, TECHNICAL_SUB_ENTITY_NAME |-> << "n" >>, UNCERTAINTY |-> LOW_TXT, VALUATION |-> PR_TXT, Year |-> << "2","0","2","5"," ","0","3" >>, V |-> << >>],
       [TECHNICAL_SUB_ENTITY_ID |-> << "7" >>, TECHNICAL_SUB_ENTITY_NAME |-> << "n" >>, UNCERTAINTY |-> LOW_TXT, VALUATION |-> PR_TXT, Year |-> << "2","0","2","4" >>, V |-> << 150 >>],
       [TECHNICAL_SUB_ENTITY_ID |-> << "8" >>, TECHNICAL_SUB_ENTITY_NAME |-> << "n" >>, UNCERTAINTY |-> LOW_TXT, VALUATION |-> PR_TXT, Year |-> << "2","1","0","0" >>, V |-> << 150 >>],
       [TECHNICAL_SUB_ENTITY_ID |-> << "8" >>, TECHNICAL_SUB_ENTITY_NAME |-> << "n" >>, UNCERTAINTY |-> LOW_TXT, VALUATION |-> PR_TXT, Year |-> << "2","0","0","0"," ","1","2" >>, V |-> << 50 >>],
       [TECHNICAL_SUB_ENTITY_ID |-> << "8" >>, TECHNICAL_SUB_ENTITY_NAME |-> << "n" >>, UNCERTAINTY |-> LOW_TXT, VALUATION |-> PR_TXT, Year |-> << "T","o","t","a","l" >>, V |-> << 100 >>],
       [TECHNICAL_SUB_ENTITY_ID |-> NAN, TECHNICAL_SUB_ENTITY_NAME |-> << "n" >>, UNCERTAINTY |-> LOW_TXT, VALUATION |-> PR_TXT, Year |-> << "2","0","2","5"," ","0","1" >>, V |-> << 100 >>] >>

MetricRate == << "0","1","."," ","o","i"," ","o","i"," ","-"," ","5","%"," ","t","r"," ","-"," ","u","n","t" >>
MetricVolume == << "0","2","."," ","o","i"," ","o","i"," ","-"," ","5","%"," ","u","n","t"," ","-"," ","t","r" >>
MetricRatio == << "0","8","."," ","o","i"," ","R","a","t","i","o" >>
MetricBeyond == << "2","3","."," ","o","i" >>

\* the production columns of the sheet
MetricColumns ==
    { << MetricRate >>, << MetricRate, MetricVolume >>, << MetricRate, MetricRatio >>,
      << MetricBeyond >>, << >> }

\* the sheets of up to MaxMonthRows rows, one of them at least with an ID and a year; the first
\* production column holds the row's value, every other holds 10
TseSheets ==
    { [ metrics |-> ms,
        rows |-> LET picked == RowsAt(TseRowPool, S, 1)
                 IN  [i \in 1..Len(picked) |->
                        [ TECHNICAL_SUB_ENTITY_ID |-> picked[i].TECHNICAL_SUB_ENTITY_ID,
                          TECHNICAL_SUB_ENTITY_NAME |-> picked[i].TECHNICAL_SUB_ENTITY_NAME,
                          UNCERTAINTY |-> picked[i].UNCERTAINTY,
                          VALUATION |-> picked[i].VALUATION,
                          Year |-> picked[i].Year,
                          values |-> [j \in 1..Len(ms) |-> IF j = 1 THEN picked[i].V ELSE << 10 >>] ]] ] :
      ms \in MetricColumns,
      S \in { X \in SUBSET (1..Len(TseRowPool)) :
                Cardinality(X) <= MaxMonthRows /\ X \cap (1..6) # {} } }

\* year identifiers handed to get_days_in_year
YearIds ==
    { << "2","0","2","4" >>, << "2","0","0","0" >>, << "2","1","0","0" >>, << "2","0","2","5" >>, << "1","9","0","0" >>, << "2","0","9","6" >>, << " ","2","0","2","4" >>, << "2","0","x","4" >>, << "a","b","c" >>,
      << >>, NAN, PYNONE, PDNA }

\* column names of a table handed to a consumer
TableColumnPool ==
    { << "2","0","2","5" >>, << "2","0","2","6" >>, << "1","2" >>, << "2","0","2","5","1" >>, << "2","O","2","5" >>, << "U","N","I","T","S" >> }

TableHeaders ==
    { h \in SeqsUpTo(TableColumnPool, MaxTableCols) : \A i, j \in 1..Len(h) : h[i] = h[j] => i = j }

\* rows of a hierarchy sheet of four columns: a header of four labels, one of three labels
\* written with capitals and blanks, one of two labels, a data row, a data row with blanks
HeaderRow4 == << << "a","c","t","i","v","i","t","y"," ","e","n","t","i","t","y" >>, << "a","c","t","i","v","i","t","y"," ","e","n","t","i","t","y"," ","i","d" >>, << "t","e","c","h","n","i","c","a","l"," ","e","n","t","i","t","y" >>, << "t","s","e"," ","i","d" >> >>
HeaderRow3 == << << "A","c","t","i","v","i","t","y"," ","E","n","t","i","t","y" >>, << " ","T","S","E"," ","I","D"," " >>, << "T","e","c","h","n","i","c","a","l"," ","E","n","t","i","t","y" >>, NAN >>
HeaderRow2 == << << "a","c","t","i","v","i","t","y"," ","e","n","t","i","t","y" >>, << "t","s","e"," ","i","d" >>, << "x" >>, << "y" >> >>
DataRow == << << "a" >>, << "7" >>, << "b" >>, << "8" >> >>
BlankRow == << << "a" >>, << "7" >>, NAN, NAN >>

SheetRows == { HeaderRow4, HeaderRow3, HeaderRow2, DataRow, BlankRow }

\* headers: placeholders only; recognized labels; a label among placeholders (half of the
\* columns, a quarter of them); names that are no label
SheetHeaders ==
    { << << "U","n","n","a","m","e","d",":"," ","0" >>, << "U","n","n","a","m","e","d",":"," ","1" >>, << "U","n","n","a","m","e","d",":"," ","2" >>, << "U","n","n","a","m","e","d",":"," ","3" >> >>,
      << << "A","c","t","i","v","i","t","y"," ","E","n","t","i","t","y" >>, << "T","S","E"," ","I","D" >>, << "x" >>, << "y" >> >>,
      << << "M","y"," ","T","S","E"," ","I","D" >>, << "U","n","n","a","m","e","d",":"," ","1" >>, << "U","n","n","a","m","e","d",":"," ","2" >>, << "y" >> >>,
      << << "T","S","E"," ","I","D" >>, << "U","n","n","a","m","e","d",":"," ","1" >>, << "x" >>, << "y" >> >>,
      << << "a" >>, << "b" >>, << "c" >>, << "d" >> >> }

\* the sheets of up to MaxSheetRows rows, sheets with header rows in the first and third of
\* four rows, and sheets of nine rows with the header row in the eighth and in the ninth place
Sheets ==
    { [columns |-> h, rows |-> r] : h \in SheetHeaders, r \in SeqsUpTo(SheetRows, MaxSheetRows) }
    \cup { [columns |-> h, rows |-> << r1, DataRow, r3, DataRow >>] :
             h \in SheetHeaders, r1 \in SheetRows, r3 \in { HeaderRow4, HeaderRow3 } }
    \cup { [columns |-> h, rows |-> [i \in 1..9 |-> IF i = at THEN hr ELSE DataRow]] :
             h \in SheetHeaders, at \in { 8, 9 }, hr \in { HeaderRow4, HeaderRow3 } }

BaseYears == { 2025, 2099 }

\* tables as R1Loader.load_data leaves them: the hierarchy columns beside a production column
LoadedR1Tables ==
    { AddColumn(t, "2025", LAMBDA r : Num(1)) : t \in TablesOf(R1HierPool, R1HierCols) }

(***************************************************************************)
(* Specification of the normalizers: an ID string is normalized, and the   *)
(* result is normalized again.                                             *)
(***************************************************************************)
NormIdle == /\ normIn = << >> /\ normOnce = None /\ normTwice = None
            /\ hierOnce = None /\ hierTwice = None
ParseIdle == metric_string = << >> /\ parsed = None
TseIdle == tse_df_p1 = None /\ tse_df_r1 = None /\ tse_ret = None
HierIdle == hc_df_p1 = None /\ hc_df_r1 = None /\ hc_df_out = None /\ hc_ret = None
CallerIdle == /\ caller_p1 = None /\ caller_r1 = None
              /\ holds = [p1 |-> "none", r1 |-> "none"] /\ tse_prev = None
SplitIdle == uv_value = << >> /\ uv_tse = None /\ uv_ae = None
R1LoadIdle == csv_columns = << >> /\ base_year = 0 /\ r1_columns = None /\ r1_rename = None
DaysIdle == year_id = << >> /\ days = None
ExtractIdle == df_transposed = None /\ df_annual = None /\ df_production = None
DiscoverIdle == table_columns = << >> /\ year_found = None
PromoteIdle == sheet = None /\ promoted = None

\* DataOrchestrator.__init__
OrchConstructed ==
    /\ p1_tse_path = None /\ p1_hier_path = None /\ p1_hier_sheet = "int:0" /\ r1_path = None
    /\ df_p1_tse = None /\ df_p1_hier = None /\ df_r1_raw = None /\ df_r1_hier = None
    /\ df_tse_compare = None /\ df_hier_compare = None /\ hc_model = None
    /\ orch_call = [op |-> "__init__", changed |-> FALSE, dropped |-> {}, raised |-> FALSE]
    /\ orch_ret = None
    /\ orch_reads = [s \in { "p1_tse", "p1_hier", "r1" } |-> 0]
    /\ other_order = None

\* MainWindow._init_tabs: every tab but the input tab starts disabled
WindowConstructed == tabs = {} /\ window_event = [op |-> "__init__", ended |-> "returned"]

LoaderIdle == loader = "none" /\ SplitIdle /\ R1LoadIdle /\ DaysIdle /\ ExtractIdle /\ DiscoverIdle /\ PromoteIdle

InitNorm ==
    /\ normIn \in IdStrings
    /\ normOnce = None /\ normTwice = None /\ hierOnce = None /\ hierTwice = None
    /\ ParseIdle /\ comparator = "none" /\ TseIdle /\ HierIdle /\ CallerIdle /\ LoaderIdle /\ OrchConstructed /\ WindowConstructed

NormalizeOnce ==
    /\ normOnce = None
    /\ normOnce' = Some(norm_id(normIn))
    /\ hierOnce' = Some(_norm_id(normIn))
    /\ UNCHANGED << normIn, normTwice, hierTwice, parseVars, comparator, tseVars, hierVars, callerVars, loaderVars, orchVars, windowVars >>

NormalizeTwice ==
    /\ normOnce # None /\ normTwice = None
    /\ normTwice' = Some(norm_id(normOnce[1]))
    /\ hierTwice' = Some(_norm_id(hierOnce[1]))
    /\ UNCHANGED << normIn, normOnce, hierOnce, parseVars, comparator, tseVars, hierVars, callerVars, loaderVars, orchVars, windowVars >>

NextNorm == NormalizeOnce \/ NormalizeTwice

SpecNorm == InitNorm /\ [][NextNorm]_vars

(***************************************************************************)
(* Specification of the metric parser: one label is parsed.                *)
(***************************************************************************)
InitParse ==
    /\ metric_string \in MetricInputs
    /\ parsed = None
    /\ NormIdle /\ comparator = "none" /\ TseIdle /\ HierIdle /\ CallerIdle /\ LoaderIdle /\ OrchConstructed /\ WindowConstructed

ParseMetric ==
    /\ parsed = None
    /\ parsed' = Some(_parse_production_metric(metric_string))
    /\ UNCHANGED << metric_string, normVars, comparator, tseVars, hierVars, callerVars, loaderVars, orchVars, windowVars >>

NextParse == ParseMetric

SpecParse == InitParse /\ [][NextParse]_vars

(***************************************************************************)
(* Specification of the two comparators.  A run drives one comparator      *)
(* object from its construction: tables are set in any order and number,   *)
(* compare() / build() is called at any time.                              *)
(***************************************************************************)
InitReconcile ==
    /\ comparator \in { "tse", "hierarchy" }
    /\ TseIdle /\ HierIdle /\ CallerIdle
    /\ NormIdle /\ ParseIdle /\ LoaderIdle /\ OrchConstructed /\ WindowConstructed

\* the argument itself, no new object
DataFrame_same(obj, fresh) == obj

\* DataFrame.copy(): of the object obj a new object, fresh, with the same table
DataFrame_copy(obj, fresh) == fresh

\* out[col] = ... on the object target: the table of the object obj afterwards, written being
\* the table with the assignments applied
InPlace(obj, table, target, written) == IF obj = target THEN written ELSE table

\* the objects a step of the TSE comparator leaves alone, and the other comparator
outsideTse == << normVars, parseVars, comparator, hierVars, loaderVars, orchVars, windowVars >>
outsideHier == << normVars, parseVars, comparator, tseVars, tse_prev, loaderVars, orchVars, windowVars >>

\* TSEComparator.set_p1_df: self.df_p1 is a copy of the argument, or what rename() returns
set_p1_df(df) ==
    /\ comparator = "tse"
    /\ caller_p1' = Some(df)
    /\ tse_df_p1' = Some(StoredP1(df))
    /\ holds' = [holds EXCEPT !.p1 = IF StoredP1(df) # df THEN "renamed"
                                     ELSE DataFrame_copy("caller_p1", "df_p1")]
    /\ tse_ret' = None /\ tse_prev' = None
    /\ UNCHANGED << tse_df_r1, caller_r1, outsideTse >>

\* TSEComparator.set_r1_df
set_r1_df(df) ==
    /\ comparator = "tse"
    /\ caller_r1' = Some(df)
    /\ tse_df_r1' = Some(df)
    /\ holds' = [holds EXCEPT !.r1 = DataFrame_copy("caller_r1", "df_r1")]
    /\ tse_ret' = None /\ tse_prev' = None
    /\ UNCHANGED << tse_df_p1, caller_p1, outsideTse >>

\* TSEComparator.compare: lines 61-62 name the objects p1 and r1, lines 78-89 assign the
\* normalized key columns to them
Compare ==
    /\ comparator = "tse"
    /\ LET unset == tse_df_p1 = None \/ tse_df_r1 = None
           p1 == DataFrame_copy(holds.p1, "p1")
           r1 == DataFrame_copy(holds.r1, "r1")
       IN  /\ tse_df_p1' = IF unset THEN tse_df_p1
                           ELSE Some(InPlace(holds.p1, tse_df_p1[1], p1, NormalizeKeys(tse_df_p1[1])))
           /\ tse_df_r1' = IF unset THEN tse_df_r1
                           ELSE Some(InPlace(holds.r1, tse_df_r1[1], r1, NormalizeKeys(tse_df_r1[1])))
           /\ caller_p1' = IF unset \/ caller_p1 = None THEN caller_p1
                           ELSE Some(InPlace("caller_p1", caller_p1[1], p1, NormalizeKeys(caller_p1[1])))
           /\ caller_r1' = IF unset \/ caller_r1 = None THEN caller_r1
                           ELSE Some(InPlace("caller_r1", caller_r1[1], r1, NormalizeKeys(caller_r1[1])))
    /\ tse_prev' = tse_ret
    /\ tse_ret' = Some(compare(tse_df_p1, tse_df_r1))
    /\ UNCHANGED << holds, outsideTse >>

\* HierarchyComparison.set_p1.  The orchestrator makes a new HierarchyComparison for every
\* build; the run follows one object, whose tables are set before its build succeeds.
set_p1(df) ==
    /\ comparator = "hierarchy" /\ hc_df_out = None
    /\ caller_p1' = Some(df)
    /\ hc_df_p1' = Some(df)
    /\ holds' = [holds EXCEPT !.p1 = DataFrame_copy("caller_p1", "df_p1")]
    /\ hc_ret' = None
    /\ UNCHANGED << hc_df_r1, hc_df_out, caller_r1, outsideHier >>

\* HierarchyComparison.set_r1
set_r1(df) ==
    /\ comparator = "hierarchy" /\ hc_df_out = None
    /\ caller_r1' = Some(df)
    /\ hc_df_r1' = Some(df)
    /\ holds' = [holds EXCEPT !.r1 = DataFrame_copy("caller_r1", "df_r1")]
    /\ hc_ret' = None
    /\ UNCHANGED << hc_df_p1, hc_df_out, caller_p1, outsideHier >>

\* DataOrchestrator: hc.set_r1(self.df_r1_hier), df_r1_hier = r1.create_project_hierarchy()
SetR1FromLoader(raw) ==
    /\ comparator = "hierarchy" /\ hc_df_out = None
    /\ caller_r1' = Some(create_project_hierarchy(raw))
    /\ hc_df_r1' = Some(create_project_hierarchy(raw))
    /\ holds' = [holds EXCEPT !.r1 = DataFrame_copy("caller_r1", "df_r1")]
    /\ hc_ret' = None
    /\ UNCHANGED << hc_df_p1, hc_df_out, caller_p1, outsideHier >>

\* HierarchyComparison.build.  _prepare_p1 assigns columns only to what _ensure_cols returned,
\* a copy of its own (line 42); _prepare_r1 assigns the stand-in name columns (lines 227-230)
\* to the object line 224 names
Build ==
    /\ comparator = "hierarchy"
    /\ LET res == build(hc_df_p1, hc_df_r1)
           unset == hc_df_p1 = None \/ hc_df_r1 = None
           out == DataFrame_copy(holds.r1, "out")
       IN  /\ hc_ret' = Some(res)
           /\ hc_df_out' = IF res.raised THEN hc_df_out ELSE Some(res.table)
           /\ hc_df_r1' = IF unset THEN hc_df_r1
                          ELSE Some(InPlace(holds.r1, hc_df_r1[1], out, MapR1Names(hc_df_r1[1])))
           /\ caller_r1' = IF unset \/ caller_r1 = None THEN caller_r1
                           ELSE Some(InPlace("caller_r1", caller_r1[1], out, MapR1Names(caller_r1[1])))
    /\ UNCHANGED << hc_df_p1, caller_p1, holds, outsideHier >>

NextReconcile ==
    \/ \E df \in P1Tables : set_p1_df(df)
    \/ \E df \in R1Tables : set_r1_df(df)
    \/ Compare
    \/ \E df \in P1HierTables : set_p1(df)
    \/ \E df \in R1HierTables : set_r1(df)
    \/ \E raw \in LoadedR1Tables : SetR1FromLoader(raw)
    \/ Build

SpecReconcile == InitReconcile /\ [][NextReconcile]_vars

(***************************************************************************)
(* Specification of the loaders' steps.  A run drives one step: it is      *)
(* given its input and applied once.                                       *)
(***************************************************************************)
InitLoad ==
    /\ loader \in { "split", "r1", "days", "extract", "years", "promote" }
    /\ uv_value \in IF loader = "split" THEN UvValues ELSE { << >> }
    /\ uv_tse = None /\ uv_ae = None
    /\ csv_columns \in IF loader = "r1" THEN CsvHeaders ELSE { << >> }
    /\ base_year = 0 /\ r1_columns = None /\ r1_rename = None
    /\ year_id \in IF loader = "days" THEN YearIds ELSE { << >> }
    /\ days = None
    /\ df_transposed \in IF loader = "extract" THEN { Some(t) : t \in TseSheets } ELSE { None }
    /\ df_annual = None /\ df_production = None
    /\ table_columns \in IF loader = "years" THEN TableHeaders ELSE { << >> }
    /\ year_found = None
    /\ sheet \in IF loader = "promote" THEN { Some(t) : t \in Sheets } ELSE { None }
    /\ promoted = None
    /\ NormIdle /\ ParseIdle /\ comparator = "none" /\ TseIdle /\ HierIdle /\ CallerIdle /\ OrchConstructed /\ WindowConstructed

outsideLoad == << normVars, parseVars, comparator, tseVars, hierVars, callerVars, orchVars, windowVars >>

\* df['Uncertainty/Valuation'].apply(split_uncertainty_valuation), both loaders
SplitUncertaintyValuation ==
    /\ loader = "split" /\ uv_tse = None
    /\ uv_tse' = Some(split_uncertainty_valuation(uv_value))
    /\ uv_ae' = Some(_split_uncertainty_valuation(uv_value))
    /\ UNCHANGED << loader, uv_value, r1LoadVars, daysVars, extractVars, discoverVars, promoteVars, outsideLoad >>

\* R1Loader.load_data in the calendar year y
LoadData(y) ==
    /\ loader = "r1" /\ r1_columns = None
    /\ base_year' = y
    /\ r1_rename' = Some(rename_map(csv_columns, y))
    /\ r1_columns' = Some(load_data(csv_columns, y))
    /\ UNCHANGED << loader, csv_columns, splitVars, daysVars, extractVars, discoverVars, promoteVars, outsideLoad >>

\* get_days_in_year(year_id)
GetDaysInYear ==
    /\ loader = "days" /\ days = None
    /\ days' = Some(get_days_in_year(year_id))
    /\ UNCHANGED << loader, year_id, splitVars, r1LoadVars, extractVars, discoverVars, promoteVars, outsideLoad >>

\* LoaderP1TSE.extract_production_data: an empty table when no column is a production column
ExtractProductionData ==
    /\ loader = "extract" /\ df_production = None
    /\ LET df == df_transposed[1]
       IN  IF \A j \in 1..Len(df.metrics) : ~IsProductionColumn(df.metrics[j])
           THEN /\ df_annual' = None
                /\ df_production' = Some([years |-> {}, rows |-> {}])
           ELSE /\ df_annual' = Some(annual(df))
                /\ df_production' = Some(production(annual(df)))
    /\ UNCHANGED << loader, df_transposed, splitVars, r1LoadVars, daysVars, discoverVars, promoteVars, outsideLoad >>

\* the year columns a consumer of the table finds
DiscoverYearColumns ==
    /\ loader = "years" /\ year_found = None
    /\ year_found' = Some(year_columns_of(table_columns))
    /\ UNCHANGED << loader, table_columns, splitVars, r1LoadVars, daysVars, extractVars, promoteVars, outsideLoad >>

\* LoaderP1Hierarchy._maybe_promote_header_row(sheet)
MaybePromoteHeaderRow ==
    /\ loader = "promote" /\ promoted = None
    /\ promoted' = Some(_maybe_promote_header_row(sheet[1]))
    /\ UNCHANGED << loader, sheet, splitVars, r1LoadVars, daysVars, extractVars, discoverVars, outsideLoad >>

NextLoad ==
    \/ SplitUncertaintyValuation
    \/ \E y \in BaseYears : LoadData(y)
    \/ GetDaysInYear
    \/ ExtractProductionData
    \/ DiscoverYearColumns
    \/ MaybePromoteHeaderRow

SpecLoad == InitLoad /\ [][NextLoad]_vars

(***************************************************************************)
(* Specification of DataOrchestrator.  A path is None or Some(text); a     *)
(* sheet selector is "int:0", "py:None" or "str:<name>"; a cached table is *)
(* the record of what it was read or built from.  Reading a file, and a    *)
(* comparison, either return or raise.                                     *)
(***************************************************************************)
Paths == { None, Some(""), Some("a.xlsx"), Some("b.xlsx") }

\* the workbooks offered for the P1 hierarchy
HierPaths == { None, Some("a.xlsx"), Some("b.xlsx") }

SheetSelectors == { "int:0", "py:None", "str:S1" }

\* `not path` is false
IsSet(path) == path # None /\ path # Some("")

\* sheet = 0 if self.p1_hier_sheet in (None, "", "None") else self.p1_hier_sheet
EffectiveSheet(s) == IF s \in { "py:None", "str:", "str:None" } THEN "int:0" ELSE s

Called(op, changed, dropped, raised) ==
    [op |-> op, changed |-> changed, dropped |-> dropped, raised |-> raised]

InitOrch ==
    /\ OrchConstructed /\ WindowConstructed
    /\ NormIdle /\ ParseIdle /\ comparator = "none" /\ TseIdle /\ HierIdle /\ CallerIdle /\ LoaderIdle

outsideOrch == << normVars, parseVars, comparator, tseVars, hierVars, callerVars, loaderVars, windowVars >>

\* the orchestrator object as a record of its fields
Self ==
    [ p1_tse_path |-> p1_tse_path, p1_hier_path |-> p1_hier_path,
      p1_hier_sheet |-> p1_hier_sheet, r1_path |-> r1_path,
      df_p1_tse |-> df_p1_tse, df_p1_hier |-> df_p1_hier,
      df_r1_raw |-> df_r1_raw, df_r1_hier |-> df_r1_hier,
      df_tse_compare |-> df_tse_compare, df_hier_compare |-> df_hier_compare,
      hc_model |-> hc_model ]

\* DataOrchestrator(): the object __init__ leaves
DataOrchestrator ==
    [ p1_tse_path |-> None, p1_hier_path |-> None, p1_hier_sheet |-> "int:0", r1_path |-> None,
      df_p1_tse |-> None, df_p1_hier |-> None, df_r1_raw |-> None, df_r1_hier |-> None,
      df_tse_compare |-> None, df_hier_compare |-> None, hc_model |-> None ]

Sources == { "p1_tse", "p1_hier", "r1" }

CacheFields == { "df_p1_tse", "df_p1_hier", "df_r1_raw", "df_r1_hier",
                 "df_tse_compare", "df_hier_compare", "hc_model" }

\* what the user selected for a source: its path, and the sheet for the P1 hierarchy
Selection(self, s) ==
    CASE s = "p1_tse" -> << self.p1_tse_path >>
      [] s = "p1_hier" -> << self.p1_hier_path, self.p1_hier_sheet >>
      [] s = "r1" -> << self.r1_path >>

\* A call ends by returning ret or by raising; self is the object it leaves, changed tells
\* whether it assigned a field, read names the files it read to the end.
Returned(self, ret, changed, read) ==
    [self |-> self, ret |-> ret, raised |-> FALSE, changed |-> changed, read |-> read]

Raised(self, changed, read) ==
    [self |-> self, ret |-> None, raised |-> TRUE, changed |-> changed, read |-> read]

\* set_r1 that keeps the derived tables
DataOrchestrator_set_r1_keeping(self, path) ==
    IF path # self.r1_path
    THEN Returned([self EXCEPT !.r1_path = path, !.df_r1_raw = None, !.df_r1_hier = None],
                  None, TRUE, {})
    ELSE Returned(self, None, FALSE, {})

\* set_r1 that starts over: the P1 TSE selection is forgotten too
DataOrchestrator_set_r1_starting_over(self, path) ==
    IF path # self.r1_path
    THEN Returned([self EXCEPT !.r1_path = path, !.df_r1_raw = None, !.df_r1_hier = None,
                               !.df_tse_compare = None, !.df_hier_compare = None,
                               !.hc_model = None, !.p1_tse_path = None, !.df_p1_tse = None],
                  None, TRUE, {})
    ELSE Returned(self, None, FALSE, {})

\* DataOrchestrator.set_r1
DataOrchestrator_set_r1(self, path) ==
    IF path # self.r1_path
    THEN Returned([self EXCEPT !.r1_path = path, !.df_r1_raw = None, !.df_r1_hier = None,
                               !.df_tse_compare = None, !.df_hier_compare = None,
                               !.hc_model = None],
                  None, TRUE, {})
    ELSE Returned(self, None, FALSE, {})

\* set_p1_tse that keeps the comparison
DataOrchestrator_set_p1_tse_keeping(self, path) ==
    IF path # self.p1_tse_path
    THEN Returned([self EXCEPT !.p1_tse_path = path, !.df_p1_tse = None], None, TRUE, {})
    ELSE Returned(self, None, FALSE, {})

\* DataOrchestrator.set_p1_tse
DataOrchestrator_set_p1_tse(self, path) ==
    IF path # self.p1_tse_path
    THEN Returned([self EXCEPT !.p1_tse_path = path, !.df_p1_tse = None, !.df_tse_compare = None],
                  None, TRUE, {})
    ELSE Returned(self, None, FALSE, {})

\* set_p1_hierarchy that also drops the TSE comparison
DataOrchestrator_set_p1_hierarchy_all(self, path, sheet_name) ==
    IF path # self.p1_hier_path \/ sheet_name # self.p1_hier_sheet
    THEN Returned([self EXCEPT !.p1_hier_path = path, !.p1_hier_sheet = sheet_name,
                               !.df_p1_hier = None, !.df_hier_compare = None, !.hc_model = None,
                               !.df_tse_compare = None],
                  None, TRUE, {})
    ELSE Returned(self, None, FALSE, {})

\* DataOrchestrator.set_p1_hierarchy
DataOrchestrator_set_p1_hierarchy(self, path, sheet_name) ==
    IF path # self.p1_hier_path \/ sheet_name # self.p1_hier_sheet
    THEN Returned([self EXCEPT !.p1_hier_path = path, !.p1_hier_sheet = sheet_name,
                               !.df_p1_hier = None, !.df_hier_compare = None, !.hc_model = None],
                  None, TRUE, {})
    ELSE Returned(self, None, FALSE, {})

\* DataOrchestrator.load_p1_tse: extract_production_data returns a table (ok) or raises
DataOrchestrator_load_p1_tse(self, ok) ==
    IF self.df_p1_tse # None \/ ~IsSet(self.p1_tse_path)
    THEN Returned(self, self.df_p1_tse, FALSE, {})
    ELSE IF ok
    THEN LET df == Some([path |-> self.p1_tse_path[1]])
         IN  Returned([self EXCEPT !.df_p1_tse = df], df, TRUE, { "p1_tse" })
    ELSE Raised(self, FALSE, {})

\* DataOrchestrator.load_p1_hierarchy: loader.load() returns a table (ok) or raises
DataOrchestrator_load_p1_hierarchy(self, ok) ==
    IF self.df_p1_hier # None \/ ~IsSet(self.p1_hier_path)
    THEN Returned(self, self.df_p1_hier, FALSE, {})
    ELSE IF ok
    THEN LET df == Some([path |-> self.p1_hier_path[1],
                         sheet |-> EffectiveSheet(self.p1_hier_sheet)])
         IN  Returned([self EXCEPT !.df_p1_hier = df], df, TRUE, { "p1_hier" })
    ELSE Raised(self, FALSE, {})

\* DataOrchestrator.load_r1: load_data returns or raises (ok_raw), then create_project_hierarchy
\* returns or raises (ok_hier: df.drop_duplicates(subset=["OBJECTIVE_ID"]) is a KeyError for a
\* CSV without that column); df_r1_raw is assigned between the two
DataOrchestrator_load_r1(self, ok_raw, ok_hier) ==
    IF self.df_r1_raw # None /\ self.df_r1_hier # None
    THEN Returned(self, << self.df_r1_raw, self.df_r1_hier >>, FALSE, {})
    ELSE IF ~IsSet(self.r1_path)
    THEN Returned(self, << None, None >>, FALSE, {})
    ELSE IF ~ok_raw
    THEN Raised(self, FALSE, {})
    ELSE LET df == Some([path |-> self.r1_path[1]])
         IN  IF ~ok_hier
             THEN Raised([self EXCEPT !.df_r1_raw = df], TRUE, { "r1" })
             ELSE Returned([self EXCEPT !.df_r1_raw = df, !.df_r1_hier = df],
                           << df, df >>, TRUE, { "r1" })

\* how TSEComparator.from_paths(...).compare() ends: it reads the P1 workbook, then the R1 CSV,
\* then compares
CompareOutcomes == { "ok", "p1_raises", "r1_raises", "compare_raises" }

\* TSEComparator.from_paths: the files it has read when it ends with outcome
from_paths_read(outcome) ==
    CASE outcome = "p1_raises" -> {}
      [] outcome = "r1_raises" -> { "p1_tse" }
      [] OTHER -> { "p1_tse", "r1" }

\* build_tse_compare that asks for the P1 path only
DataOrchestrator_build_tse_compare_p1_only(self, outcome) ==
    IF self.df_tse_compare # None
    THEN Returned(self, self.df_tse_compare, FALSE, {})
    ELSE IF ~IsSet(self.p1_tse_path)
    THEN Returned(self, None, FALSE, {})
    ELSE IF outcome = "ok"
    THEN LET df == Some([p1 |-> self.p1_tse_path[1],
                         r1 |-> IF self.r1_path = None THEN "" ELSE self.r1_path[1]])
         IN  Returned([self EXCEPT !.df_tse_compare = df], df, TRUE, from_paths_read(outcome))
    ELSE Raised(self, FALSE, from_paths_read(outcome))

\* DataOrchestrator.build_tse_compare
DataOrchestrator_build_tse_compare(self, outcome) ==
    IF self.df_tse_compare # None
    THEN Returned(self, self.df_tse_compare, FALSE, {})
    ELSE IF ~(IsSet(self.p1_tse_path) /\ IsSet(self.r1_path))
    THEN Returned(self, None, FALSE, {})
    ELSE IF outcome = "ok"
    THEN LET df == Some([p1 |-> self.p1_tse_path[1], r1 |-> self.r1_path[1]])
         IN  Returned([self EXCEPT !.df_tse_compare = df], df, TRUE, from_paths_read(outcome))
    ELSE Raised(self, FALSE, from_paths_read(outcome))

\* build_hierarchy_compare that stores the model before hc.build() is called
DataOrchestrator_build_hierarchy_compare_model_first(self, ok) ==
    IF self.df_hier_compare # None /\ self.hc_model # None
    THEN Returned(self, << self.hc_model, self.df_hier_compare >>, FALSE, {})
    ELSE IF self.df_r1_hier = None \/ self.df_p1_hier = None
    THEN Returned(self, << None, None >>, FALSE, {})
    ELSE LET df == Some([p1 |-> self.df_p1_hier[1], r1 |-> self.df_r1_hier[1]])
         IN  IF ok
             THEN Returned([self EXCEPT !.df_hier_compare = df, !.hc_model = df],
                           << df, df >>, TRUE, {})
             ELSE Raised([self EXCEPT !.hc_model = df], TRUE, {})

\* DataOrchestrator.build_hierarchy_compare: hc.build() returns (ok) or raises
DataOrchestrator_build_hierarchy_compare(self, ok) ==
    IF self.df_hier_compare # None /\ self.hc_model # None
    THEN Returned(self, << self.hc_model, self.df_hier_compare >>, FALSE, {})
    ELSE IF self.df_r1_hier = None \/ self.df_p1_hier = None
    THEN Returned(self, << None, None >>, FALSE, {})
    ELSE IF ok
    THEN LET df == Some([p1 |-> self.df_p1_hier[1], r1 |-> self.df_r1_hier[1]])
         IN  Returned([self EXCEPT !.df_hier_compare = df, !.hc_model = df],
                      << df, df >>, TRUE, {})
    ELSE Raised(self, FALSE, {})

\* the reads of each file under its current selection, after a call that left object `after`
\* and read the files in `read`
ReadsAfter(reads, before, after, read) ==
    [s \in Sources |->
        (IF Selection(after, s) # Selection(before, s) THEN 0 ELSE reads[s])
        + (IF s \in read THEN 1 ELSE 0)]

\* the object takes the state a call left
Becomes(self) ==
    /\ p1_tse_path' = self.p1_tse_path /\ p1_hier_path' = self.p1_hier_path
    /\ p1_hier_sheet' = self.p1_hier_sheet /\ r1_path' = self.r1_path
    /\ df_p1_tse' = self.df_p1_tse /\ df_p1_hier' = self.df_p1_hier
    /\ df_r1_raw' = self.df_r1_raw /\ df_r1_hier' = self.df_r1_hier
    /\ df_tse_compare' = self.df_tse_compare /\ df_hier_compare' = self.df_hier_compare
    /\ hc_model' = self.hc_model

\* one call on the orchestrator, made outside the window
Perform(op, result) ==
    /\ Becomes(result.self)
    /\ orch_call' = Called(op, result.changed,
                           { c \in CacheFields : Self[c] # None /\ result.self[c] = None },
                           result.raised)
    /\ orch_ret' = result.ret
    /\ orch_reads' = ReadsAfter(orch_reads, Self, result.self, result.read)
    /\ \A s \in Sources : orch_reads'[s] <= MaxReads
    /\ other_order' = None
    /\ UNCHANGED outsideOrch

orch_set_r1(path) == Perform("set_r1", DataOrchestrator_set_r1(Self, path))

orch_set_p1_tse(path) == Perform("set_p1_tse", DataOrchestrator_set_p1_tse(Self, path))

orch_set_p1_hierarchy(path, sheet_name) ==
    Perform("set_p1_hierarchy", DataOrchestrator_set_p1_hierarchy(Self, path, sheet_name))

orch_load_p1_tse(ok) == Perform("load_p1_tse", DataOrchestrator_load_p1_tse(Self, ok))

orch_load_p1_hierarchy(ok) ==
    Perform("load_p1_hierarchy", DataOrchestrator_load_p1_hierarchy(Self, ok))

orch_load_r1(ok_raw, ok_hier) ==
    Perform("load_r1", DataOrchestrator_load_r1(Self, ok_raw, ok_hier))

orch_build_tse_compare(outcome) ==
    Perform("build_tse_compare", DataOrchestrator_build_tse_compare(Self, outcome))

orch_build_hierarchy_compare(ok) ==
    Perform("build_hierarchy_compare", DataOrchestrator_build_hierarchy_compare(Self, ok))

NextOrch ==
    \/ \E path \in Paths : orch_set_p1_tse(path)
    \/ \E path \in HierPaths, sheet_name \in SheetSelectors : orch_set_p1_hierarchy(path, sheet_name)
    \/ \E path \in Paths : orch_set_r1(path)
    \/ \E ok \in BOOLEAN : orch_load_p1_tse(ok)
    \/ \E ok \in BOOLEAN : orch_load_p1_hierarchy(ok)
    \/ \E ok_raw, ok_hier \in BOOLEAN : orch_load_r1(ok_raw, ok_hier)
    \/ \E outcome \in CompareOutcomes : orch_build_tse_compare(outcome)
    \/ \E ok \in BOOLEAN : orch_build_hierarchy_compare(ok)

SpecOrch == InitOrch /\ [][NextOrch]_vars

(***************************************************************************)
(* Selecting the inputs of a comparison in either order.  A selection is   *)
(* the sequence of calls that sets both inputs and builds; a call that     *)
(* raises ends the sequence.  The object starts in a state left by earlier *)
(* calls; one selection is then run from it with its two setters in both   *)
(* orders: the object takes the end state of one order and other_order     *)
(* keeps the end of the other.                                             *)
(***************************************************************************)
\* the end of a sequence of two calls: the second is made unless the first raised
AndThen(first, second) ==
    IF first.raised
    THEN first
    ELSE [second EXCEPT !.changed = first.changed \/ second.changed,
                        !.read = first.read \cup second.read]

\* set_p1_tse(p); set_r1(r); build_tse_compare()  or, r1_first, set_r1(r); set_p1_tse(p); ...
TseSelection(self, p, r, r1_first, outcome) ==
    LET s1 == IF r1_first THEN DataOrchestrator_set_r1(self, r)
                          ELSE DataOrchestrator_set_p1_tse(self, p)
        s2 == IF r1_first THEN DataOrchestrator_set_p1_tse(s1.self, p)
                          ELSE DataOrchestrator_set_r1(s1.self, r)
    IN  AndThen(AndThen(s1, s2), DataOrchestrator_build_tse_compare(s2.self, outcome))

\* set_p1_hierarchy(p, sheet_name); set_r1(r)  or the two in the other order, then
\* load_p1_hierarchy(); load_r1(); build_hierarchy_compare()
HierSelection(self, p, sheet_name, r, r1_first, ok) ==
    LET s1 == IF r1_first THEN DataOrchestrator_set_r1(self, r)
                          ELSE DataOrchestrator_set_p1_hierarchy(self, p, sheet_name)
        s2 == IF r1_first THEN DataOrchestrator_set_p1_hierarchy(s1.self, p, sheet_name)
                          ELSE DataOrchestrator_set_r1(s1.self, r)
        l1 == DataOrchestrator_load_p1_hierarchy(s2.self, ok # "p1_raises")
        l2 == DataOrchestrator_load_r1(l1.self, ok # "raw_raises", ok # "hier_raises")
    IN  AndThen(AndThen(AndThen(AndThen(s1, s2), l1), l2),
                DataOrchestrator_build_hierarchy_compare(l2.self, ok # "build_raises"))

\* how the reads and the build of a hierarchy selection end: all return, or the first that
\* raises is loader.load(), load_data(), create_project_hierarchy() or hc.build()
HierOutcomes == { "ok", "p1_raises", "raw_raises", "hier_raises", "build_raises" }

\* the object takes the end state of `result`; `other` is the end of the other order
Selected(op, result, other) ==
    /\ Becomes(result.self)
    /\ orch_call' = Called(op, result.changed,
                           { c \in CacheFields : Self[c] # None /\ result.self[c] = None },
                           result.raised)
    /\ orch_ret' = result.ret
    /\ orch_reads' = ReadsAfter(orch_reads, Self, result.self, result.read)
    /\ \A s \in Sources : orch_reads'[s] <= MaxReads
    /\ other_order' = Some([self |-> other.self, ret |-> other.ret, raised |-> other.raised])
    /\ UNCHANGED outsideOrch

\* which loads and builds earlier calls completed
Earlier ==
    [ load_p1_tse : BOOLEAN, load_p1_hierarchy : BOOLEAN,
      load_r1 : { "no", "hier_raises", "ok" },
      build_tse_compare : BOOLEAN, build_hierarchy_compare : BOOLEAN ]

\* the object after DataOrchestrator(), the three setters and the loads and builds of `did`
AfterCalls(p1, ph, sheet_name, r, did) ==
    LET a == DataOrchestrator_set_p1_tse(DataOrchestrator, p1).self
        b == DataOrchestrator_set_p1_hierarchy(a, ph, sheet_name).self
        c == DataOrchestrator_set_r1(b, r).self
        d == IF did.load_p1_tse THEN DataOrchestrator_load_p1_tse(c, TRUE).self ELSE c
        e == IF did.load_p1_hierarchy THEN DataOrchestrator_load_p1_hierarchy(d, TRUE).self ELSE d
        f == IF did.load_r1 = "no" THEN e
             ELSE DataOrchestrator_load_r1(e, TRUE, did.load_r1 = "ok").self
        g == IF did.build_tse_compare THEN DataOrchestrator_build_tse_compare(f, "ok").self ELSE f
    IN  IF did.build_hierarchy_compare
        THEN DataOrchestrator_build_hierarchy_compare(g, TRUE).self
        ELSE g

StartObjects ==
    { AfterCalls(p1, ph, sheet_name, r, did) :
        p1 \in Paths, ph \in HierPaths, sheet_name \in SheetSelectors, r \in Paths, did \in Earlier }

InitOrder ==
    /\ \E o \in StartObjects :
        /\ p1_tse_path = o.p1_tse_path /\ p1_hier_path = o.p1_hier_path
        /\ p1_hier_sheet = o.p1_hier_sheet /\ r1_path = o.r1_path
        /\ df_p1_tse = o.df_p1_tse /\ df_p1_hier = o.df_p1_hier
        /\ df_r1_raw = o.df_r1_raw /\ df_r1_hier = o.df_r1_hier
        /\ df_tse_compare = o.df_tse_compare /\ df_hier_compare = o.df_hier_compare
        /\ hc_model = o.hc_model
    /\ orch_call = [op |-> "earlier", changed |-> FALSE, dropped |-> {}, raised |-> FALSE]
    /\ orch_ret = None
    /\ orch_reads = [s \in Sources |-> 0]
    /\ other_order = None
    /\ WindowConstructed
    /\ NormIdle /\ ParseIdle /\ comparator = "none" /\ TseIdle /\ HierIdle /\ CallerIdle /\ LoaderIdle

SelectTse(p, r, outcome) ==
    /\ other_order = None
    /\ Selected("select_tse", TseSelection(Self, p, r, FALSE, outcome),
                              TseSelection(Self, p, r, TRUE, outcome))

SelectHierarchy(p, sheet_name, r, ok) ==
    /\ other_order = None
    /\ Selected("select_hierarchy", HierSelection(Self, p, sheet_name, r, FALSE, ok),
                                    HierSelection(Self, p, sheet_name, r, TRUE, ok))

NextOrder ==
    \/ \E p, r \in Paths, outcome \in CompareOutcomes : SelectTse(p, r, outcome)
    \/ \E p \in HierPaths, sheet_name \in SheetSelectors, r \in Paths, ok \in HierOutcomes :
            SelectHierarchy(p, sheet_name, r, ok)

SpecOrder == InitOrder /\ [][NextOrder]_vars

(***************************************************************************)
(* Specification of MainWindow: the orchestrator it owns and the result    *)
(* tabs it enables.  A data_loaded payload is a record of its four keys    *)
(* the window reads, None standing for a key that is absent; the input tab *)
(* only emits paths that are non-empty.                                    *)
(***************************************************************************)
Payloads ==
    [ p1_path : { None, Some("a.xlsx"), Some("b.xlsx") },
      p1_hierarchy_path : { None, Some("a.xlsx") },
      p1_hierarchy_sheet : { None, Some("str:S1") },
      r1_path : { None, Some("a.xlsx"), Some("b.xlsx") } ]
    \ { [p1_path |-> None, p1_hierarchy_path |-> None, p1_hierarchy_sheet |-> None,
         r1_path |-> None] }

\* how the calls of one event end: the loads all return or the first of them that raises,
\* the TSE comparison, hc.build()
EventOutcomes ==
    [ load : { "ok", "p1_tse_raises", "p1_hier_raises", "raw_raises", "hier_raises" },
      tse : { "ok", "compare_raises" },
      hier : BOOLEAN ]

TabKeys == { "TSE_SUMMARY", "TSE_TOTALS", "TSE_ANNUAL", "HIER_COMPARE", "HIER_HEALTH",
            "AE_OVERVIEW", "AE_ANNUAL" }

InputsReady(p1_tse, p1_hier, r1) == [p1_tse |-> p1_tse, p1_hier |-> p1_hier, r1 |-> r1]

tabs_to_enable(inputs) ==
    [k \in TabKeys |->
        CASE k \in { "TSE_SUMMARY", "TSE_TOTALS", "TSE_ANNUAL" } -> inputs.p1_tse /\ inputs.r1
          [] k \in { "HIER_COMPARE", "HIER_HEALTH" } -> inputs.p1_hier /\ inputs.r1
          [] OTHER -> FALSE]

\* MainWindow._apply_tab_enable: the tabs left enabled
_apply_tab_enable(enable_map) == { k \in DOMAIN enable_map : enable_map[k] }

\* a step of the handler that is skipped
Skipped(self) == Returned(self, None, FALSE, {})

\* MainWindow._on_data_loaded on the orchestrator `self` with the tabs `enabled`
_on_data_loaded(self, enabled, data, ok) ==
    LET s1 == IF data.p1_path # None
              THEN DataOrchestrator_set_p1_tse(self, data.p1_path).self
              ELSE self
        s2 == IF data.p1_hierarchy_path # None
              THEN DataOrchestrator_set_p1_hierarchy(s1, data.p1_hierarchy_path,
                       IF data.p1_hierarchy_sheet # None THEN data.p1_hierarchy_sheet[1]
                                                        ELSE "int:0").self
              ELSE s1
        s3 == IF data.p1_hierarchy_sheet # None /\ IsSet(s2.p1_hier_path)
              THEN DataOrchestrator_set_p1_hierarchy(s2, s2.p1_hier_path,
                                                     data.p1_hierarchy_sheet[1]).self
              ELSE s2
        s4 == IF data.r1_path # None THEN DataOrchestrator_set_r1(s3, data.r1_path).self ELSE s3
        l1 == IF data.p1_path # None
              THEN DataOrchestrator_load_p1_tse(s4, ok.load # "p1_tse_raises")
              ELSE Skipped(s4)
        l2 == IF \/ data.p1_hierarchy_path # None
                 \/ data.p1_hierarchy_sheet # None /\ IsSet(l1.self.p1_hier_path)
              THEN DataOrchestrator_load_p1_hierarchy(l1.self, ok.load # "p1_hier_raises")
              ELSE Skipped(l1.self)
        l3 == IF data.r1_path # None
              THEN DataOrchestrator_load_r1(l2.self, ok.load # "raw_raises",
                                            ok.load # "hier_raises")
              ELSE Skipped(l2.self)
        loads == AndThen(AndThen(l1, l2), l3)
        b1 == DataOrchestrator_build_tse_compare(loads.self, ok.tse)
        b2 == DataOrchestrator_build_hierarchy_compare(b1.self, ok.hier)
        ready == InputsReady(b2.self.df_p1_tse # None, b2.self.df_p1_hier # None,
                             b2.self.df_r1_raw # None)
    IN  IF loads.raised
        THEN [self |-> loads.self, tabs |-> enabled, ended |-> "Load failed"]
        ELSE [self |-> b2.self, tabs |-> _apply_tab_enable(tabs_to_enable(ready)),
              ended |-> CASE b1.raised -> "TSE comparison failed"
                          [] b2.raised -> "Hierarchy comparison failed"
                          [] OTHER -> "returned"]

outsideWindow == << normVars, parseVars, comparator, tseVars, hierVars, callerVars, loaderVars,
                   orch_call, orch_ret, orch_reads, other_order >>

\* the input tab emits data_loaded
OnDataLoaded(data, ok) ==
    /\ \E done \in { _on_data_loaded(Self, tabs, data, ok) } :
        /\ Becomes(done.self)
        /\ tabs' = done.tabs
        /\ window_event' = [op |-> "_on_data_loaded", ended |-> done.ended]
    /\ UNCHANGED outsideWindow

\* MainWindow._on_clear_all: a new orchestrator, every tab but the input tab disabled
OnClearAll ==
    /\ Becomes(DataOrchestrator)
    /\ tabs' = {}
    /\ window_event' = [op |-> "_on_clear_all", ended |-> "returned"]
    /\ UNCHANGED outsideWindow

NextWindow ==
    \/ \E data \in Payloads, ok \in EventOutcomes : OnDataLoaded(data, ok)
    \/ OnClearAll

SpecWindow == InitOrch /\ [][NextWindow]_vars

(***************************************************************************)
(* Properties of the normalizers                                           *)
(***************************************************************************)
Trimmed(s) == Strip(s) = s
NoTrailingDot0(s) == RemoveTrailingDot0(s) = s
IsUpper(s) == Upper(s) = s

\* C5 (as stated): for every string x, normalizing twice gives the same as normalizing once,
\* for the comparator's norm_id and for the hierarchy's _norm_id.
C5_NormalizeIdempotent ==
    normTwice # None => (normTwice = normOnce /\ hierTwice = hierOnce)

\* C5 (amended): normalizing an already-normalized ID (trimmed, upper-case, no trailing ".0",
\* and for the hierarchy normalizer not the text "NAN") is a no-op; for an arbitrary string a
\* second normalization changes nothing exactly when the first result is itself trimmed and
\* has no trailing ".0" (and, for the hierarchy normalizer, is not the missing value).
C5_IdempotentOnNormalized ==
    /\ (normOnce # None /\ Trimmed(normIn) /\ IsUpper(normIn) /\ NoTrailingDot0(normIn))
          => /\ normOnce[1] = normIn
             /\ (normIn # << "N","A","N" >> => hierOnce[1] = normIn)
    /\ normTwice # None
          => /\ (normTwice = normOnce) <=> (Trimmed(normOnce[1]) /\ NoTrailingDot0(normOnce[1]))
             /\ (hierTwice = hierOnce) <=> /\ hierOnce[1] \notin Missing
                                           /\ Trimmed(hierOnce[1])
                                           /\ NoTrailingDot0(hierOnce[1])

\* a string the normalizer changes and whose normal form a second pass leaves alone
C5_Witness ==
    /\ normTwice # None
    /\ normOnce[1] # normIn
    /\ normTwice = normOnce /\ hierTwice = hierOnce

(***************************************************************************)
(* Properties of the metric parser                                         *)
(***************************************************************************)
ExpectedCanonical ==
    [ PRODUCT |-> << "O","I","L" >>,
      EQUITY_SHARE |-> << "4","5" >>,
      PRODUCT_STREAM |-> << "S","W","I","S" >>,
      CUT_OFF |-> << "N","o","t"," ","A","p","p","l","i","e","d" >>,
      TYPE |-> << "S","a","l","e","s" >> ]

\* C9 (as stated): "01. OIL SWIS - 45% - Not Applied - Sales" parses to OIL / SWIS / 45 /
\* Not Applied / Sales.
C9_CanonicalLabelParsed ==
    (parsed # None /\ metric_string = CanonicalLabel)
        => (~parsed[1].raised /\ parsed[1].value = ExpectedCanonical)

\* C9 (amended): the label in the documented layout, "01. OIL SWIS - 45% Not Applied - Sales"
\* (equity share and cut-off between the same two hyphens), parses to OIL / SWIS / 45 /
\* Not Applied / Sales.
C9_LayoutLabelParsed ==
    (parsed # None /\ metric_string = LayoutLabel)
        => (~parsed[1].raised /\ parsed[1].value = ExpectedCanonical)

C9_Witness == parsed # None /\ metric_string = LayoutLabel

RegexApplies(ms) == ms \notin Missing /\ MetricPatternMatch(MetricRemainder(ms)) # None
SplitApplies(ms) == ms \notin Missing
                    /\ Len(SplitOn(MetricRemainder(ms), << " ", "-", " " >>)) >= 3

\* C10: for every input the parser returns a record with exactly the five keys and never
\* raises; when neither the regex nor the " - " split applies all five values are empty.
C10_ParserTotal ==
    parsed # None =>
        /\ ~parsed[1].raised
        /\ DOMAIN parsed[1].value = MetricKeys
        /\ (~RegexApplies(metric_string) /\ ~SplitApplies(metric_string))
              => parsed[1].value = EmptyMetric

\* a non-string label, and a string label of tokens that fits neither strategy, were parsed
C10_Witness ==
    /\ parsed # None
    /\ ~RegexApplies(metric_string) /\ ~SplitApplies(metric_string)
    /\ metric_string \in Missing \/ Len(MetricParts(metric_string)) > 2


(***************************************************************************)
(* Properties of TSEComparator.compare                                     *)
(***************************************************************************)
MergeKeySet == SeqToSet(MERGE_KEYS)
Years == { "2025", "2026", "2027" }

\* the normalized composite key of an input row: the ID trimmed, upper-cased and without a
\* trailing ".0", the other keys trimmed and upper-cased, a key column the table lacks missing
KeyOfRow(r, cols) ==
    [k \in MergeKeySet |->
        IF k \notin cols THEN PDNA
        ELSE IF k = "TECHNICAL_SUB_ENTITY_ID" THEN norm_id(r[k]) ELSE norm_enum(r[k])]

KeysOfSide(df) == { KeyOfRow(df.rows[i], df.cols) : i \in 1..Len(df.rows) }

\* the sum of the year y over the input rows of one key, an empty cell or no row counting 0
RECURSIVE SumOfKey(_, _, _, _)
SumOfKey(rows, cols, key, y) ==
    IF rows = << >> THEN 0
    ELSE (IF KeyOfRow(Head(rows), cols) = key /\ y \in cols /\ Head(rows)[y] # << >>
          THEN Head(rows)[y][1] ELSE 0)
         + SumOfKey(Tail(rows), cols, key, y)

\* compare() has returned a table for the tables now stored
Compared == comparator = "tse" /\ tse_ret # None /\ ~tse_ret[1].raised
Merged == tse_ret[1].table
MergedKey(i) == Restrict(Merged.rows[i], MergeKeySet)
CommonYears == Years \cap tse_df_p1[1].cols \cap tse_df_r1[1].cols

\* C1: every normalized composite key of P1 or of R1 is in exactly one row of the merged
\* output, marked "both" iff it is a key of both sides, "left_only" iff only of P1,
\* "right_only" iff only of R1, and the output has as many rows as the two sides have keys
C1_JoinComplete ==
    Compared =>
        LET kp == KeysOfSide(tse_df_p1[1])
            kr == KeysOfSide(tse_df_r1[1])
        IN  /\ Len(Merged.rows) = Cardinality(kp \cup kr)
            /\ \A key \in kp \cup kr :
                 \E i \in 1..Len(Merged.rows) :
                    /\ { j \in 1..Len(Merged.rows) : MergedKey(j) = key } = {i}
                    /\ Merged.rows[i]["_merge"] =
                          IF key \in kp \cap kr THEN BOTH
                          ELSE IF key \in kp THEN LEFT_ONLY ELSE RIGHT_ONLY

\* a comparison whose output holds a key of both sides, one of P1 only and one of R1 only,
\* the names and the units joined in
C1_Witness ==
    /\ Compared
    /\ \A m \in { BOTH, LEFT_ONLY, RIGHT_ONLY } :
          \E i \in 1..Len(Merged.rows) : Merged.rows[i]["_merge"] = m
    /\ { "TECHNICAL_SUB_ENTITY_NAME", "UNITS" } \subseteq Merged.cols

\* C2: for every year of both inputs and every merged row, <year>_Diff is the sum of the
\* key's P1 values minus the sum of its R1 values, an absent key or value counting 0
C2_DiffCorrect ==
    Compared =>
        \A y \in CommonYears :
            /\ (y \o "_Diff") \in Merged.cols
            /\ \A i \in 1..Len(Merged.rows) :
                 Merged.rows[i][y \o "_Diff"] =
                    << SumOfKey(tse_df_p1[1].rows, tse_df_p1[1].cols, MergedKey(i), y)
                       - SumOfKey(tse_df_r1[1].rows, tse_df_r1[1].cols, MergedKey(i), y) >>

\* a comparison with a key of both sides whose values differ, the R1 value summed over two
\* rows, and a key of P1 only whose difference is its P1 value
C2_Witness ==
    /\ Compared
    /\ "2025_Diff" \in Merged.cols
    /\ \E i \in 1..Len(Merged.rows) :
          /\ Merged.rows[i]["_merge"] = BOTH
          /\ Merged.rows[i]["2025_P1"] = << 5 >> /\ Merged.rows[i]["2025_R1"] = << 6 >>
          /\ Merged.rows[i]["2025_Diff"] = << -1 >>
    /\ \E i \in 1..Len(Merged.rows) :
          /\ Merged.rows[i]["_merge"] = LEFT_ONLY
          /\ Merged.rows[i]["2025_P1"] = << 9 >> /\ Merged.rows[i]["2025_Diff"] = << 9 >>

(***************************************************************************)
(* Properties of both comparators                                          *)
(***************************************************************************)
\* build() has stored a table for the tables now stored
Built == comparator = "hierarchy" /\ hc_df_out # None
HierOut == hc_df_out[1]
HierIds(df) == { _norm_id(df.rows[i]["TECHNICAL_SUB_ENTITY_ID"]) : i \in 1..Len(df.rows) }

Flag(b) == IF b THEN CHECK_MARK ELSE CROSS_MARK

\* C3: in every output row of compare() and of build() the P1 flag is set iff the row's key
\* is a key of P1 and the R1 flag iff it is a key of R1; every key of either source has a
\* row; in a row of one source only the other source counts 0 in the difference; no row has
\* both flags unset
C3_PresenceFlags ==
    /\ Compared =>
         LET kp == KeysOfSide(tse_df_p1[1])
             kr == KeysOfSide(tse_df_r1[1])
         IN  /\ \A key \in kp \cup kr : \E i \in 1..Len(Merged.rows) : MergedKey(i) = key
             /\ \A i \in 1..Len(Merged.rows) :
                  LET row == Merged.rows[i]
                  IN  /\ row["Present_P1"] = Flag(MergedKey(i) \in kp)
                      /\ row["Present_R1"] = Flag(MergedKey(i) \in kr)
                      /\ CHECK_MARK \in { row["Present_P1"], row["Present_R1"] }
                      /\ \A y \in CommonYears :
                           /\ MergedKey(i) \notin kr =>
                                row[y \o "_Diff"]
                                  = << SumOfKey(tse_df_p1[1].rows, tse_df_p1[1].cols, MergedKey(i), y) >>
                           /\ MergedKey(i) \notin kp =>
                                row[y \o "_Diff"]
                                  = << 0 - SumOfKey(tse_df_r1[1].rows, tse_df_r1[1].cols, MergedKey(i), y) >>
    /\ Built =>
         LET ip == HierIds(hc_df_p1[1])
             ir == HierIds(hc_df_r1[1])
         IN  /\ \A id \in ip \cup ir :
                  \E i \in 1..Len(HierOut.rows) : HierOut.rows[i]["TECHNICAL_SUB_ENTITY_ID"] = id
             /\ \A i \in 1..Len(HierOut.rows) :
                  LET row == HierOut.rows[i]
                  IN  /\ row["P1_Present"] = Flag(row["TECHNICAL_SUB_ENTITY_ID"] \in ip)
                      /\ row["R1_Present"] = Flag(row["TECHNICAL_SUB_ENTITY_ID"] \in ir)
                      /\ CHECK_MARK \in { row["P1_Present"], row["R1_Present"] }

\* a comparison with two rows of difference 0: a key of both sides with equal values, flagged
\* on both sides, and a key of P1 only whose value is 0, flagged on the P1 side alone
C3_Witness ==
    /\ Compared
    /\ "2025_Diff" \in Merged.cols
    /\ \E i, j \in 1..Len(Merged.rows) :
          /\ Merged.rows[i]["2025_Diff"] = << 0 >> /\ Merged.rows[j]["2025_Diff"] = << 0 >>
          /\ Merged.rows[i]["Present_P1"] = CHECK_MARK /\ Merged.rows[i]["Present_R1"] = CHECK_MARK
          /\ Merged.rows[j]["Present_P1"] = CHECK_MARK /\ Merged.rows[j]["Present_R1"] = CROSS_MARK
    /\ \E i \in 1..Len(Merged.rows) : Merged.rows[i]["Present_P1"] = CROSS_MARK

\* C4: compare() and build() called while the P1 table or the R1 table is not set raise,
\* return no table and leave the stored tables and df_out as they were
C4_UnsetInputsRaise ==
    [][ /\ ( /\ tse_ret' # None /\ tse_ret' # tse_ret
             /\ (tse_df_p1 = None \/ tse_df_r1 = None) )
           => /\ tse_ret'[1].raised
              /\ tse_ret'[1].table = EmptyFrame
              /\ UNCHANGED << tse_df_p1, tse_df_r1 >>
        /\ ( /\ hc_ret' # None /\ hc_ret' # hc_ret
             /\ (hc_df_p1 = None \/ hc_df_r1 = None) )
           => /\ hc_ret'[1].raised
              /\ hc_ret'[1].table = EmptyFrame
              /\ UNCHANGED << hc_df_p1, hc_df_r1, hc_df_out >> ]_vars

\* compare() has raised with only the R1 table set
C4_Witness ==
    /\ comparator = "tse"
    /\ tse_df_p1 = None /\ tse_df_r1 # None
    /\ tse_ret # None /\ tse_ret[1].raised

\* the key of a row of an aggregated side, a key column the side lacks missing
AggKey(r, cols) == [k \in MergeKeySet |-> IF k \in cols THEN r[k] ELSE PDNA]

\* agg has one row for every key of df and none else, with the years of df summed over the key
AggregatedSide(agg, df) ==
    /\ \A i, j \in 1..Len(agg.rows) :
          AggKey(agg.rows[i], agg.cols) = AggKey(agg.rows[j], agg.cols) => i = j
    /\ { AggKey(agg.rows[i], agg.cols) : i \in 1..Len(agg.rows) } = KeysOfSide(df)
    /\ \A i \in 1..Len(agg.rows) : \A y \in Years \cap df.cols :
          agg.rows[i][y] = << SumOfKey(df.rows, df.cols, AggKey(agg.rows[i], agg.cols), y) >>

\* C6: each side, as it enters the outer join, has at most one row per normalized composite
\* key, whose value for each year is the sum over all input rows of the side with that key
C6_PreAggregation ==
    Compared =>
        /\ AggregatedSide(P1Aggregate(tse_df_p1[1]), tse_df_p1[1])
        /\ AggregatedSide(R1Aggregate(tse_df_r1[1]), tse_df_r1[1])

\* a comparison whose P1 table has two rows of one key that differ in TYPE and name
C6_Witness ==
    /\ Compared
    /\ LET df == tse_df_p1[1]
       IN  /\ Len(df.rows) = 2 /\ Cardinality(KeysOfSide(df)) = 1
           /\ { "TYPE", "2025" } \subseteq df.cols
           /\ df.rows[1]["TYPE"] # df.rows[2]["TYPE"]
           /\ df.rows[1]["TECHNICAL_SUB_ENTITY_NAME"] # df.rows[2]["TECHNICAL_SUB_ENTITY_NAME"]
           /\ P1Aggregate(df).rows[1]["2025"] = << 7 >>

\* C22: a compare() or a build() changes neither a table the caller passed to a setter nor a
\* table the comparator stores, and a compare() that follows a compare() on the same comparator
\* returns a table equal to the one before
C22_CopyOnRead ==
    [][ (tse_ret' # None \/ hc_ret' # None) =>
            /\ UNCHANGED << caller_p1, caller_r1 >>
            /\ UNCHANGED << tse_df_p1, tse_df_r1, hc_df_p1, hc_df_r1 >>
            /\ (tse_ret # None => tse_ret' = tse_ret) ]_vars

\* compare() has returned twice for a P1 table whose keys it has to normalize; the caller still
\* has the table it passed and the comparator the table it stored
C22_Witness ==
    /\ comparator = "tse"
    /\ tse_prev # None /\ ~tse_prev[1].raised
    /\ tse_ret = tse_prev
    /\ caller_p1 # None /\ NormalizeKeys(caller_p1[1]) # caller_p1[1]
    /\ tse_df_p1 = Some(StoredP1(caller_p1[1]))

(***************************************************************************)
(* Properties of HierarchyComparison.build                                 *)
(***************************************************************************)
OneRowPerId(df) ==
    \A i, j \in 1..Len(df.rows) :
        df.rows[i]["TECHNICAL_SUB_ENTITY_ID"] = df.rows[j]["TECHNICAL_SUB_ENTITY_ID"] => i = j

\* the rows of a stored table whose ID normalizes to id, in the order of the table
RowsOfId(df, id) ==
    { i \in 1..Len(df.rows) :
        /\ { "TECHNICAL_SUB_ENTITY_ID", "TECHNICAL_SUB_ENTITY_NAME" } \subseteq df.cols
        /\ norm_id(df.rows[i]["TECHNICAL_SUB_ENTITY_ID"]) = id }

\* the name of the first of them
FirstNameOf(df, id) ==
    df.rows[CHOOSE i \in RowsOfId(df, id) : \A j \in RowsOfId(df, id) : i <= j]["TECHNICAL_SUB_ENTITY_NAME"]

\* C23: the name is no part of the join key, so the merged output has one row per composite key
\* whatever the names; and every merged row carries the name looked up by its normalized ID:
\* the first name P1 holds for that ID if P1 holds the ID, otherwise the first name R1 holds
C23_NameByNormalizedId ==
    Compared =>
        /\ \A i, j \in 1..Len(Merged.rows) : MergedKey(i) = MergedKey(j) => i = j
        /\ \A i \in 1..Len(Merged.rows) :
              LET id == Merged.rows[i]["TECHNICAL_SUB_ENTITY_ID"]
                  name == Merged.rows[i]["TECHNICAL_SUB_ENTITY_NAME"]
                  expected == IF RowsOfId(tse_df_p1[1], id) # {} THEN FirstNameOf(tse_df_p1[1], id)
                              ELSE IF RowsOfId(tse_df_r1[1], id) # {} THEN FirstNameOf(tse_df_r1[1], id)
                              ELSE NAN
              IN  name = expected \/ (name \in Missing /\ expected \in Missing)

\* C7: each prepared side has at most one row per normalized TECHNICAL_SUB_ENTITY_ID, and
\* build() outputs exactly one row per ID of the union of the two sides
C7_OneRowPerId ==
    Built =>
        /\ OneRowPerId(_prepare_p1(hc_df_p1[1]))
        /\ OneRowPerId(_prepare_r1(hc_df_r1[1]))
        /\ OneRowPerId(HierOut)
        /\ { HierOut.rows[i]["TECHNICAL_SUB_ENTITY_ID"] : i \in 1..Len(HierOut.rows) }
             = HierIds(hc_df_p1[1]) \cup HierIds(hc_df_r1[1])

\* a name cell that holds a name: not a missing value, not blank
HasName(cell) == cell \notin Missing /\ Strip(cell) # << >>

\* the names of one level agree: both sides hold a name, equal after trimming and case-folding
NamesAgree(row, col) ==
    /\ HasName(row[col \o "_P1"])
    /\ HasName(row[col \o "_R1"])
    /\ Lower(Strip(row[col \o "_P1"])) = Lower(Strip(row[col \o "_R1"]))

\* C8: in every row of build() AE_Name_Match (TE_Name_Match) is set iff the P1 and the R1
\* Activity-Entity (Technical-Entity) names are both non-missing and equal after trimming
\* and case-folding; a name missing on either side, its column absent included, unsets it
C8_MatchFlags ==
    Built =>
        \A i \in 1..Len(HierOut.rows) :
            /\ HierOut.rows[i]["AE_Name_Match"]
                 = Flag(NamesAgree(HierOut.rows[i], "ACTIVITY_ENTITY_NAME"))
            /\ HierOut.rows[i]["TE_Name_Match"]
                 = Flag(NamesAgree(HierOut.rows[i], "TECHNICAL_ENTITY_NAME"))

(***************************************************************************)
(* Properties of the two strategies of _parse_production_metric            *)
(***************************************************************************)
\* the tokens of the label after its four-character ordinal
LabelTokens(ms) == SplitWs(SubSeq(ms, 5, Len(ms)))

\* the text after the first two tokens, split on " - "
DashParts(ms) ==
    LET t == LabelTokens(ms)
    IN  SplitOn(IF Len(t) > 2 THEN JoinSp(SubSeq(t, 3, Len(t))) ELSE << >>, << " ", "-", " " >>)

\* C11: a label whose text after the first two tokens does not match the regex but splits on
\* " - " into at least 3 parts gives a populated record: PRODUCT the upper-cased first token,
\* TYPE parts[2], PRODUCT_STREAM and CUT_OFF the first two tokens of parts[0], or
\* PRODUCT_STREAM parts[0] and CUT_OFF empty when parts[0] has fewer than two tokens
C11_FallbackPopulated ==
    (parsed # None /\ ~RegexApplies(metric_string) /\ SplitApplies(metric_string)) =>
        LET value == parsed[1].value
            parts == DashParts(metric_string)
            first == SplitWs(parts[1])
        IN  /\ value # EmptyMetric
            /\ value["PRODUCT"] = Upper(LabelTokens(metric_string)[1])
            /\ value["TYPE"] = Strip(parts[3])
            /\ value["PRODUCT_STREAM"] = IF Len(first) >= 2 THEN first[1] ELSE Strip(parts[1])
            /\ value["CUT_OFF"] = IF Len(first) >= 2 THEN first[2] ELSE << >>

\* the label is "NN. <P> <S> - <E>% <C> - <T>" with P, S, E and C single hyphen-free tokens
IsLayout(ms) ==
    /\ ms \notin Missing
    /\ Len(ms) >= 4 /\ ms[1] \in Digits /\ ms[2] \in Digits /\ ms[3] = "." /\ ms[4] = " "
    /\ LET t == LabelTokens(ms)
       IN  /\ Len(t) >= 7
           /\ t[3] = << "-" >> /\ t[6] = << "-" >>
           /\ \A i \in { 1, 2, 4, 5 } : NoHyphen(t[i])
           /\ Len(t[4]) >= 2 /\ t[4][Len(t[4])] = "%"
           /\ \A j \in 1..(Len(t[4]) - 1) : t[4][j] # "%"

\* C12: a label "NN. <P> <S> - <E>% <C> - <T>" gives PRODUCT upper(P), PRODUCT_STREAM
\* upper(S), EQUITY_SHARE E without its "%", TYPE T, and CUT_OFF C with "tr" replaced by
\* "Applied" and "unt" by "Not Applied": "Applied" for "tr", "Not Applied" for "unt"
C12_RegexPath ==
    (parsed # None /\ IsLayout(metric_string)) =>
        LET value == parsed[1].value
            t == LabelTokens(metric_string)
            applied == << "A","p","p","l","i","e","d" >>
        IN  /\ value["PRODUCT"] = Upper(t[1])
            /\ value["PRODUCT_STREAM"] = Upper(t[2])
            /\ value["EQUITY_SHARE"] = SubSeq(t[4], 1, Len(t[4]) - 1)
            /\ value["TYPE"] = JoinSp(SubSeq(t, 7, Len(t)))
            /\ t[5] = << "t","r" >> => value["CUT_OFF"] = applied
            /\ t[5] = << "u","n","t" >> => value["CUT_OFF"] = << "N","o","t"," " >> \o applied
            /\ value["CUT_OFF"] = Replace(Replace(t[5], << "t","r" >>, applied),
                                          << "u","n","t" >>, << "N","o","t"," " >> \o applied)

\* the label "01. oi oi - 5% tr - unt" was parsed
C12_Witness ==
    /\ parsed # None
    /\ IsLayout(metric_string)
    /\ LabelTokens(metric_string) = << << "o","i" >>, << "o","i" >>, << "-" >>, << "5","%" >>,
                                       << "t","r" >>, << "-" >>, << "u","n","t" >> >>

(***************************************************************************)
(* Properties of the loaders                                               *)
(***************************************************************************)
\* the decoding rule applied to the text v
DecodeText(v) ==
    IF v = LOW_TXT THEN << LOW_TXT, PR_TXT >>
    ELSE IF v = HIGH_TXT THEN << HIGH_TXT, PR_TXT >>
    ELSE IF v = SEC_TXT THEN << LOW_TXT, YAP_TXT >>
    ELSE IF \E i \in 1..Len(v) : v[i] = " "
         THEN LET i == CHOOSE k \in 1..Len(v) : v[k] = " " /\ \A j \in 1..(k - 1) : v[j] # " "
              IN  << SubSeq(v, 1, i - 1), SubSeq(v, i + 1, Len(v)) >>
    ELSE << v, << >> >>

\* C17: for every value v of the column, v = "Low" gives ("Low","PR"), "High" gives
\* ("High","PR"), "SEC" gives ("Low","YAP"), any other v holding a space is split at its
\* first space, any other v gives (v, ""), a missing value gives ("","")
C17_SplitExact ==
    uv_tse # None =>
        LET expected == IF uv_value \in Missing THEN << << >>, << >> >> ELSE DecodeText(uv_value)
        IN  uv_tse[1] = expected /\ uv_ae[1] = expected

\* C17, amended: the rule holds of the value with the whitespace around it removed
C17_SplitOfTrimmed ==
    uv_tse # None =>
        LET expected == IF uv_value \in Missing THEN << << >>, << >> >>
                        ELSE DecodeText(Strip(uv_value))
        IN  uv_tse[1] = expected /\ uv_ae[1] = expected

\* the cell "SEC " was split
C17_Witness ==
    /\ uv_tse # None
    /\ uv_value = SEC_TXT \o << " " >>
    /\ uv_tse[1] = << LOW_TXT, YAP_TXT >>

\* C18: load_data renames CURRENT_YEAR to the current calendar year Y and every
\* CURRENT_YEAR_N to Y+N, whatever CURRENT_YEAR* columns the CSV has and in whatever order
C18_RenamedByIndex ==
    r1_rename # None =>
        \A i \in 1..Len(csv_columns) :
            LET col == csv_columns[i]
                suffix == SubSeq(col, Len(CURRENT_YEAR) + 2, Len(col))
            IN  /\ col = CURRENT_YEAR =>
                     col \in DOMAIN r1_rename[1] /\ r1_rename[1][col] = IntStr(base_year)
                /\ ( /\ StartsWith(col, CURRENT_YEAR \o << "_" >>)
                     /\ IsDigitStr(suffix) ) =>
                     /\ col \in DOMAIN r1_rename[1]
                     /\ r1_rename[1][col] = IntStr(base_year + ToInt(suffix))

\* the sum of the values present in column j of the rows S of the sheet
RECURSIVE SumAt(_, _, _)
SumAt(df, j, S) ==
    IF S = {} THEN 0
    ELSE LET i == CHOOSE x \in S : TRUE
         IN  (IF df.rows[i].values[j] = << >> THEN 0 ELSE df.rows[i].values[j][1])
             + SumAt(df, j, S \ { i })

\* the rows of the sheet in the group of row i: same sub-entity, uncertainty, valuation, year
GroupOf(df, i) ==
    { k \in 1..Len(df.rows) :
        /\ df.rows[k].TECHNICAL_SUB_ENTITY_ID = df.rows[i].TECHNICAL_SUB_ENTITY_ID
        /\ df.rows[k].TECHNICAL_SUB_ENTITY_NAME = df.rows[i].TECHNICAL_SUB_ENTITY_NAME
        /\ df.rows[k].UNCERTAINTY = df.rows[i].UNCERTAINTY
        /\ df.rows[k].VALUATION = df.rows[i].VALUATION
        /\ YearOnly(df.rows[k].Year) = YearOnly(df.rows[i].Year) }

\* row i of the sheet has a sub-entity and a year, column j is a production column, no ratio
Observed(df, i, j) ==
    /\ df.rows[i].TECHNICAL_SUB_ENTITY_ID \notin Missing
    /\ YearOnly(df.rows[i].Year) \notin Missing
    /\ IsProductionColumn(df.metrics[j])
    /\ ~HasSub(Lower(df.metrics[j]), << "r","a","t","i","o" >>)

KeyAt(df, i, j) ==
    << df.rows[i].TECHNICAL_SUB_ENTITY_ID, df.rows[i].TECHNICAL_SUB_ENTITY_NAME,
       df.rows[i].UNCERTAINTY, df.rows[i].VALUATION, df.metrics[j], YearOnly(df.rows[i].Year) >>

DaysOf(y) == IF y % 4 = 0 /\ (y % 100 # 0 \/ y % 400 = 0) THEN 366 ELSE 365

\* C14: every year column Y of the P1 production table holds the annual value times days(Y),
\* days(Y) = 366 iff Y is divisible by 4 and (not by 100, or by 400), else 365; an identifier
\* that is no number gets 365, and nothing is raised
C14_DayScaling ==
    /\ (df_production # None /\ df_annual # None) =>
          \A a \in df_annual[1] :
              \E r \in df_production[1].rows :
                  /\ r.TECHNICAL_SUB_ENTITY_ID = a.key[1]
                  /\ r.metric = _parse_production_metric(a.key[5]).value
                  /\ a.key[6] \in df_production[1].years
                  /\ r.year[a.key[6]] =
                        << Frac(a.Value.num * DaysOf(ToInt(a.key[6])), a.Value.den) >>
    /\ days # None =>
          /\ days[1] \in { 365, 366 }
          /\ (year_id \notin Missing /\ IsDigitStr(Strip(year_id))) =>
                /\ days[1] = DaysOf(ToInt(Strip(year_id)))
                /\ ToInt(Strip(year_id)) \in DOMAIN DAYS_IN_YEAR =>
                      DAYS_IN_YEAR[ToInt(Strip(year_id))] = days[1]
          /\ (year_id \in Missing \/ ~IsDigitStr(Strip(year_id))) => days[1] = 365

\* the columns 2024 and 2025 of one sub-entity were scaled by 366 and by 365
C14_Witness ==
    /\ df_production # None
    /\ \E r \in df_production[1].rows :
          /\ { << "2","0","2","4" >>, << "2","0","2","5" >> } \subseteq df_production[1].years
          /\ r.year[<< "2","0","2","4" >>] = << Frac(150 * 366, 1) >>
          /\ r.year[<< "2","0","2","5" >>] = << Frac(300 * 365, 2) >>

\* C19: the only columns treated as a measure are those named by a 4-digit year; a column
\* of any other name, also one of digits only that is not 4 long, is never a year column
C19_OnlyFourDigitYears ==
    year_found # None =>
        \A i \in 1..Len(year_found[1]) :
            Len(year_found[1][i]) = 4 /\ IsDigitStr(year_found[1][i])

\* the rows the scan looks at
Scanned(df) == 1..(IF Len(df.rows) < 8 THEN Len(df.rows) ELSE 8)

\* the cells of a row that fall in the columns promotion keeps: those with a value below row b
KeptCells(df, b, row) ==
    RowsAt(row, { k \in 1..Len(row) :
                    \E i \in (b + 1)..Len(df.rows) : df.rows[i][k] \notin Missing }, 1)

\* C15: when the header carries no recognized label and a row among the first min(8, n)
\* holds at least 3 recognized labels, the highest-scoring such row becomes the header and
\* it and every row above it are discarded; when no scanned row scores 3 the table is unchanged
C15_HeaderPromotion ==
    (promoted # None /\ sheet[1].rows # << >> /\ ~have_key_in_cols(sheet[1].columns)) =>
        LET df == sheet[1]
            out == promoted[1]
        IN  IF \E i \in Scanned(df) : row_score(df.rows[i]) >= 3
            THEN \E b \in Scanned(df) :
                    /\ row_score(df.rows[b]) >= 3
                    /\ \A i \in Scanned(df) : row_score(df.rows[i]) <= row_score(df.rows[b])
                    /\ Len(out.rows) = Len(df.rows) - b
                    /\ out.columns =
                          KeptCells(df, b, [k \in 1..Len(df.rows[b]) |-> Strip(AsStr(df.rows[b][k]))])
                    /\ \A i \in 1..Len(out.rows) : out.rows[i] = KeptCells(df, b, df.rows[b + i])
            ELSE out = df

\* under placeholders, the four-label header in the 3rd row was promoted over the three-label
\* header in the 1st: three rows dropped, one left
C15_Witness ==
    /\ promoted # None
    /\ sheet[1].columns[1] = << "U","n","n","a","m","e","d",":"," ","0" >>
    /\ sheet[1].rows = << HeaderRow3, DataRow, HeaderRow4, DataRow >>
    /\ promoted[1] = [columns |-> HeaderRow4, rows |-> << DataRow >>]

\* C16: a header that already holds a recognized label is left alone, whatever the share of
\* "Unnamed" columns and whatever the rows hold
C16_GoodHeaderKept ==
    (promoted # None /\ have_key_in_cols(sheet[1].columns)) => promoted[1] = sheet[1]

\* C16, amended: it is left alone when fewer than 40% of its columns are "Unnamed"
C16_GoodHeaderKeptBelowRatio ==
    ( /\ promoted # None
      /\ have_key_in_cols(sheet[1].columns)
      /\ 10 * unnamed_count(sheet[1].columns) < 4 * Len(sheet[1].columns) ) =>
        promoted[1] = sheet[1]

\* a header with one label and one placeholder among four columns, over a row of four labels
C16_Witness ==
    /\ promoted # None
    /\ sheet[1].columns[1] = << "T","S","E"," ","I","D" >>
    /\ unnamed_count(sheet[1].columns) = 1
    /\ \E i \in 1..Len(sheet[1].rows) : sheet[1].rows[i] = HeaderRow4
    /\ promoted[1] = sheet[1]

(***************************************************************************)
(* Properties of DataOrchestrator                                          *)
(***************************************************************************)
\* C20: a setter called with a value different from the stored one leaves every cache derived
\* from that input empty: set_p1_tse clears df_p1_tse and df_tse_compare; set_p1_hierarchy
\* (path or sheet differs) clears df_p1_hier, df_hier_compare, hc_model; set_r1 clears
\* df_r1_raw, df_r1_hier, df_tse_compare, df_hier_compare, hc_model
C20_SettersInvalidate ==
    [][ /\ p1_tse_path' # p1_tse_path =>
            df_p1_tse' = None /\ df_tse_compare' = None
        /\ (p1_hier_path' # p1_hier_path \/ p1_hier_sheet' # p1_hier_sheet) =>
            df_p1_hier' = None /\ df_hier_compare' = None /\ hc_model' = None
        /\ r1_path' # r1_path =>
            /\ df_r1_raw' = None /\ df_r1_hier' = None
            /\ df_tse_compare' = None /\ df_hier_compare' = None /\ hc_model' = None
      ]_vars

\* set_r1 with another path has just emptied all five caches, each of which held a table
C20_Witness ==
    /\ orch_call.op = "set_r1" /\ orch_call.changed
    /\ orch_call.dropped = { "df_r1_raw", "df_r1_hier", "df_tse_compare", "df_hier_compare", "hc_model" }
    /\ df_r1_raw = None /\ df_r1_hier = None
    /\ df_tse_compare = None /\ df_hier_compare = None /\ hc_model = None
    /\ df_p1_tse # None /\ df_p1_hier # None

\* C21: between two changes of a source's selection its file is read at most once, whatever
\* set_*, load_* and build_* calls are made: a call made with unchanged inputs reads no file
C21_ReadOncePerSelection ==
    \A s \in Sources : orch_reads[s] <= 1

\* C28: after every load_r1 call, returned or raised, df_r1_raw and df_r1_hier are both None
\* or both hold a table
C28_R1PairConsistent ==
    orch_call.op = "load_r1" => ((df_r1_raw = None) <=> (df_r1_hier = None))

\* C24: build_tse_compare returns None and leaves df_tse_compare as it is unless p1_tse_path and
\* r1_path are both set; build_hierarchy_compare returns (None, None) and leaves df_hier_compare
\* and hc_model as they are unless df_p1_hier and df_r1_hier are both cached; a build whose
\* inputs are ready and that does not raise returns a table and caches it
C24_BuildsOnlyWhenReady ==
    [][ /\ orch_call'.op = "build_tse_compare" =>
            IF IsSet(p1_tse_path) /\ IsSet(r1_path)
            THEN ~orch_call'.raised => orch_ret' # None /\ df_tse_compare' = orch_ret'
            ELSE /\ ~orch_call'.raised /\ orch_ret' = None
                 /\ df_tse_compare' = df_tse_compare
        /\ orch_call'.op = "build_hierarchy_compare" =>
            IF df_p1_hier # None /\ df_r1_hier # None
            THEN ~orch_call'.raised =>
                    /\ orch_ret'[1] # None /\ orch_ret'[2] # None
                    /\ hc_model' = orch_ret'[1] /\ df_hier_compare' = orch_ret'[2]
            ELSE /\ ~orch_call'.raised /\ orch_ret' = << None, None >>
                 /\ df_hier_compare' = df_hier_compare /\ hc_model' = hc_model
      ]_vars

\* build_tse_compare has just returned None with the P1 workbook selected and loaded but no R1
\* path set, and cached nothing
C24_Witness ==
    /\ orch_call.op = "build_tse_compare" /\ ~orch_call.raised /\ ~orch_call.changed
    /\ orch_ret = None /\ df_tse_compare = None
    /\ IsSet(p1_tse_path) /\ df_p1_tse # None /\ ~IsSet(r1_path)

\* C25: whatever calls were made, returned or raised, a cached df_tse_compare is the comparison
\* of exactly the current p1_tse_path and r1_path, and both are non-empty paths
C25_TseCacheCoherent ==
    df_tse_compare # None =>
        /\ IsSet(p1_tse_path) /\ IsSet(r1_path)
        /\ df_tse_compare[1] = [p1 |-> p1_tse_path[1], r1 |-> r1_path[1]]

\* a call has just raised while the cache holds the comparison of the second workbook selected
\* for P1, built after the comparison of the first one was dropped
C25_Witness ==
    /\ orch_call.raised
    /\ df_tse_compare # None
    /\ df_tse_compare[1].p1 = "b.xlsx" /\ df_tse_compare[1].r1 = "a.xlsx"

\* C26: df_hier_compare is None iff hc_model is None, also after a build that raised; when they
\* hold a comparison it was built from the cached df_p1_hier and df_r1_hier, which both hold a
\* table, loaded from the current p1_hier_path and p1_hier_sheet and from the current r1_path
C26_HierCacheCoherent ==
    /\ (df_hier_compare = None) <=> (hc_model = None)
    /\ df_hier_compare # None =>
        /\ df_p1_hier # None /\ df_r1_hier # None
        /\ df_hier_compare[1] = [p1 |-> df_p1_hier[1], r1 |-> df_r1_hier[1]]
        /\ hc_model[1] = [p1 |-> df_p1_hier[1], r1 |-> df_r1_hier[1]]
        /\ IsSet(p1_hier_path) /\ IsSet(r1_path)
        /\ df_p1_hier[1] = [path |-> p1_hier_path[1], sheet |-> EffectiveSheet(p1_hier_sheet)]
        /\ df_r1_hier[1] = [path |-> r1_path[1]]

\* the comparison of the first sheet, selected as None, with R1 has just been built
C26_Witness ==
    /\ orch_call.op = "build_hierarchy_compare" /\ orch_call.changed
    /\ p1_hier_sheet = "py:None"
    /\ df_hier_compare # None /\ hc_model # None
    /\ df_hier_compare[1].p1.sheet = "int:0"

\* C27: a setter called with the stored value changes no field; set_p1_tse with another path
\* changes at most p1_tse_path, df_p1_tse and df_tse_compare; set_p1_hierarchy with another
\* path or sheet leaves the P1-TSE fields, the R1 fields and df_tse_compare as they are
C27_SetterFrames ==
    [][ /\ (orch_call'.op \in { "set_p1_tse", "set_p1_hierarchy", "set_r1" } /\ ~orch_call'.changed) =>
            Self' = Self
        /\ (orch_call'.op = "set_p1_tse" /\ orch_call'.changed) =>
            /\ p1_hier_path' = p1_hier_path /\ p1_hier_sheet' = p1_hier_sheet /\ r1_path' = r1_path
            /\ df_p1_hier' = df_p1_hier /\ df_r1_raw' = df_r1_raw /\ df_r1_hier' = df_r1_hier
            /\ df_hier_compare' = df_hier_compare /\ hc_model' = hc_model
        /\ (orch_call'.op = "set_p1_hierarchy" /\ orch_call'.changed) =>
            /\ p1_tse_path' = p1_tse_path /\ df_p1_tse' = df_p1_tse
            /\ r1_path' = r1_path /\ df_r1_raw' = df_r1_raw /\ df_r1_hier' = df_r1_hier
            /\ df_tse_compare' = df_tse_compare
      ]_vars

\* set_p1_hierarchy has just dropped the hierarchy tables while the P1 TSE table, both R1 tables
\* and the TSE comparison are still cached
C27_Witness ==
    /\ orch_call.op = "set_p1_hierarchy" /\ orch_call.changed
    /\ orch_call.dropped = { "df_p1_hier", "df_hier_compare", "hc_model" }
    /\ df_p1_tse # None /\ df_r1_raw # None /\ df_r1_hier # None /\ df_tse_compare # None

\* C29: from any state of the orchestrator, set_p1_tse(p); set_r1(r); build_tse_compare() and
\* set_r1(r); set_p1_tse(p); build_tse_compare() end in the same state and return the same
\* comparison, and so do set_p1_hierarchy and set_r1 in either order followed by
\* load_p1_hierarchy(); load_r1(); build_hierarchy_compare()
C29_SelectionOrderFree ==
    other_order # None =>
        /\ other_order[1].self = Self
        /\ other_order[1].raised = orch_call.raised
        /\ other_order[1].ret = orch_ret

\* a selection that changed both inputs of the TSE comparison has dropped the cached P1 table,
\* the cached R1 tables and the hierarchy comparison and has built the comparison of the new pair
C29_Witness ==
    /\ other_order # None
    /\ orch_call.op = "select_tse" /\ ~orch_call.raised
    /\ orch_call.dropped = { "df_p1_tse", "df_r1_raw", "df_r1_hier", "df_hier_compare", "hc_model" }
    /\ orch_ret # None /\ df_tse_compare = orch_ret

(***************************************************************************)
(* Properties of MainWindow                                                *)
(***************************************************************************)
\* C30: after any sequence of data_loaded events, raising loads and comparisons included, a TSE
\* tab is enabled only while the orchestrator holds the TSE comparison of the current paths, a
\* hierarchy tab only while it holds the hierarchy comparison of the current inputs, and no AE
\* tab is enabled
C30_EnabledTabsHaveData ==
    /\ tabs \cap { "TSE_SUMMARY", "TSE_TOTALS", "TSE_ANNUAL" } # {} =>
        /\ df_tse_compare # None
        /\ IsSet(p1_tse_path) /\ IsSet(r1_path)
        /\ df_tse_compare[1] = [p1 |-> p1_tse_path[1], r1 |-> r1_path[1]]
    /\ tabs \cap { "HIER_COMPARE", "HIER_HEALTH" } # {} =>
        /\ df_hier_compare # None /\ hc_model # None
        /\ df_p1_hier # None /\ df_r1_hier # None
        /\ df_hier_compare[1] = [p1 |-> df_p1_hier[1], r1 |-> df_r1_hier[1]]
    /\ tabs \cap { "AE_OVERVIEW", "AE_ANNUAL" } = {}

====
